---- MODULE Spec2Model ----
(***************************************************************************)
(* Quantum LIMIT-GRAPH v2.3.0: the REPAIR edit stream with its dual-memory *)
(* tiers (src/agent/repair_edit_stream.py) and the graph traversal engine  *)
(* (graph/quantum_traversal.py).                                           *)
(*                                                                         *)
(* Numbers: a reliability score or a confidence is kept in tenths or       *)
(* hundredths of a unit (0.8 is 8 tenths), an edge weight in hundredths.   *)
(* A text is a sequence of pieces; a phrase is a sequence of pieces too.    *)
(***************************************************************************)
EXTENDS Integers, Sequences, FiniteSets, TLC

\* ------------------------------------------------------------------ bounds
MaxCap == 1          \* capacities of the two tiers range over 0..MaxCap
MaxCalls == 3        \* calls made on one stream
MaxPending == 1      \* edits created directly and not yet stored in an entry
NumNodes == 7        \* nodes of the semantic graph
MaxMissing == 2      \* template edges a graph of the family may lack
MaxSelected == 2     \* variables set in an answer of the optimization backend
MaxPathLen == 2      \* nodes of a path passed to compute_semantic_coherence
MaxStore == 3        \* entries added to the context store
MaxRouted == 2       \* (entry, score) pairs of a layer passed to merge_context
MaxTextLen == 4      \* pieces of a text passed to detect_hallucination or apply_edit
MaxDepth == 3        \* max_depth of a direct citation_walk call
MaxTrail == 3        \* nodes of a path passed to the apply_edits function

\* --------------------------------------------------------------- constants
PromotionBar == 8    \* reliability_score > 0.8, in tenths
EditConfidence == 85 \* confidence=0.85 of the synthesized edit, in hundredths
IdWidth == 6         \* f"edit_{n:06d}"
PathCutoff == 5      \* all_simple_paths(..., cutoff=5)
MaxCandidates == 10  \* all_paths[:10]
NonAdjacentPenalty == 10   \* coherence_scores.append(0.1), in hundredths
CoherenceDefaultWeight == 50  \* edge_data.get('weight', 0.5), in hundredths
DijkstraDefaultWeight == 100  \* d.get('weight', 1.0), in hundredths
CitationDepth == 2   \* citation_walk(path[-1], max_depth=2)
ThresholdUnit == 10000      \* thresholds are kept in ten-thousandths
DefaultBaseThreshold == 8000   \* base_threshold: float = 0.80
DefaultMinThreshold == 7000    \* threshold_range = (0.70, 0.95)
DefaultMaxThreshold == 9500
GlobalRaise == 500          \* threshold += 0.05
LanguageCut == 500          \* threshold -= 0.05
ComplexityMidpoint == 50    \* query_complexity - 0.5, in hundredths
ComplexityGain == 10        \* * 0.1: hundredths to ten-thousandths
LanguageMatchBonus == 300   \* threshold -= 0.03
CharsPerToken == 4          \* len(entry.content) // 4
ScoreUnit == 1000           \* {score:.3f}

None == "None"

EditTypes == {"insertion", "deletion", "substitution", "reordering"}

HallucinationTypes ==
    {"factual_error", "entity_mismatch", "temporal_inconsistency",
     "logical_contradiction", "unsupported_claim"}

\* ------------------------------------------------------------------- texts
\* the pieces of text the model's strings are made of
Tokens ==
    {"Research", "research", "shows", "According", "to", "Quantum", "QUANTUM",
     "quantum", "Limit", "limit", "[CORRECTED] ", "X", "Y", "Z", " -> "}

\* str.lower() on a piece
LowerIdentity(tok) == tok
Lower(tok) ==
    CASE tok = "Research" -> "research"
      [] tok = "According" -> "according"
      [] tok = "Quantum" -> "quantum"
      [] tok = "QUANTUM" -> "quantum"
      [] tok = "Limit" -> "limit"
      [] tok = "[CORRECTED] " -> "[corrected] "
      [] tok = "X" -> "x"
      [] tok = "Y" -> "y"
      [] tok = "Z" -> "z"
      [] OTHER -> tok

\* text.lower()
LowerText(text) == [i \in 1..Len(text) |-> Lower(text[i])]

\* least index at which pat occurs in text, 0 if none (str.find)
Find(text, pat) ==
    LET hits == { i \in 1..(Len(text) - Len(pat) + 1) :
                    SubSeq(text, i, i + Len(pat) - 1) = pat }
    IN  IF hits = {} THEN 0 ELSE CHOOSE i \in hits : \A j \in hits : i <= j

\* phrase in text
Contains(text, phrase) == Find(text, phrase) # 0

\* seq[:n] and seq[n:]
Take(seq, n) ==
    IF n >= 0 THEN SubSeq(seq, 1, IF n < Len(seq) THEN n ELSE Len(seq))
    ELSE SubSeq(seq, 1, IF Len(seq) + n > 0 THEN Len(seq) + n ELSE 0)
Drop(seq, n) == SubSeq(seq, Len(Take(seq, n)) + 1, Len(seq))

\* the texts and contexts the stream is driven with
StreamTexts == { <<"Quantum">>, <<"Research", "shows">> }

StreamContexts ==
    { [entities |-> << <<"Limit">> >>, source |-> None],
      [entities |-> << <<"Quantum">> >>, source |-> "test"] }

\* ---------------------------------------------------------------- edit ids
RECURSIVE Digits(_)
Digits(n) == IF n < 10 THEN <<n>> ELSE Append(Digits(n \div 10), n % 10)

\* f"{n:06d}": the decimal digits, left-padded with zeros to IdWidth
ZeroPad(n) ==
    LET d == Digits(n)
    IN  IF Len(d) >= IdWidth THEN d
        ELSE [i \in 1..(IdWidth - Len(d)) |-> 0] \o d

\* f"edit_{self.edit_counter:06d}"
EditId(n) == <<"edit_">> \o ZeroPad(n)

\* self.edit_counter += 1
NextCounterStuck(n) == n
NextCounter(n) == n + 1

VARIABLES
    short_term_memory,    \* list of MemoryEntry
    long_term_memory,     \* list of MemoryEntry
    short_term_capacity,
    long_term_capacity,
    edit_counter,
    hallucination_stats,  \* HallucinationType -> count
    now,                  \* the clock datetime.now() reads; one tick per call
    pending,              \* Edits returned by direct create_edit calls
    last_call             \* the call that ran last, its entry and its result

streamVars ==
    << short_term_memory, long_term_memory, short_term_capacity,
       long_term_capacity, edit_counter, hallucination_stats, now, pending,
       last_call >>

VARIABLES
    graph,            \* the nx.Graph: edge {u, v} -> its attribute dict
    use_quantum,      \* QuantumGraphTraversal.use_quantum
    singleton_paths,  \* the installed networkx yields [s] for all_simple_paths(s, s)
    pc,               \* "idle", "solving" (inside optimizer.solve), "answered",
                      \* "raised" or "done"
    answer,           \* result.x, once optimizer.solve has returned
    call,             \* arguments of the traverse call in progress
    solver_invoked,   \* optimizer.solve was entered during this call
    outcome,          \* the return statement that produced the path
    result,           \* what traverse returned
    coherence_call,   \* the last direct compute_semantic_coherence call
    citation_call     \* the last direct citation_walk call

traversalVars ==
    << graph, use_quantum, singleton_paths, pc, answer, call, solver_invoked,
       outcome, result, coherence_call, citation_call >>

VARIABLES
    base_threshold,   \* ACEContextRouter fields, thresholds in ten-thousandths
    min_threshold,
    max_threshold,
    context_store,    \* ContextLayer -> list of ContextEntry
    threshold_call,   \* the last direct adjust_threshold call
    routed,           \* the last route_context call: its arguments and result
    merged            \* the last merge_context call: its arguments and result

routerVars ==
    << base_threshold, min_threshold, max_threshold, context_store,
       threshold_call, routed, merged >>

VARIABLES
    workers,      \* thread -> the locals of its apply_edits call on the stream
    overlapped,   \* an apply_edits call began while another was in progress
    readers       \* thread -> the locals of its route_context call

threadVars == << workers, overlapped, readers >>

vars == << streamVars, traversalVars, routerVars, threadVars >>

\* the threads that share one stream or one router
Threads == {"t1", "t2"}

\* the locals of a thread that has not entered apply_edits
IdleWorker ==
    [ pc |-> "idle", text |-> <<>>, hallucination |-> None, provenance |-> None,
      t |-> 0, tmp |-> 0, edits_applied |-> <<>>, entry |-> <<>>,
      oldest |-> <<>> ]

\* the locals of a thread that has not entered route_context
IdleReader ==
    [ pc |-> "idle", args |-> <<>>, began |-> <<>>, layer |-> 0, pos |-> 0,
      layer_results |-> <<>>, results |-> <<>> ]

\* no thread runs a call of its own
ThreadsUnused ==
    /\ workers = [th \in Threads |-> IdleWorker]
    /\ overlapped = FALSE
    /\ readers = [th \in Threads |-> IdleReader]

\* ------------------------------------------------------ detect_hallucination
DetectHallucination(text, context) ==
    IF ~Contains(LowerText(text), <<"according", "to">>)
          /\ Contains(LowerText(text), <<"research", "shows">>)
    THEN "unsupported_claim"
    ELSE IF context.entities # <<>>
         THEN IF \E i \in 1..Len(context.entities) :
                    Contains(LowerText(text), LowerText(context.entities[i]))
              THEN None
              ELSE "entity_mismatch"
         ELSE None

\* --------------------------------------------------------------- create_edit
\* the Edit object create_edit returns when the counter reads n before the call
NewEdit(n, edit_type, position, original, corrected, confidence, ht, prov, ts) ==
    [ edit_id |-> EditId(NextCounter(n)),
      edit_type |-> edit_type,
      position |-> position,
      original_text |-> original,
      corrected_text |-> corrected,
      confidence |-> confidence,
      hallucination_type |-> ht,
      provenance |-> prov,
      timestamp |-> ts ]

\* if hallucination_type: self.hallucination_stats[hallucination_type] += 1
BumpStats(stats, ht) ==
    IF ht # None THEN [stats EXCEPT ![ht] = @ + 1] ELSE stats

\* ---------------------------------------------------------------- apply_edit
\* text.replace(old, new, 1)
ReplaceFirst(text, old, new) ==
    LET i == Find(text, old)
    IN  IF i = 0 THEN text
        ELSE SubSeq(text, 1, i - 1) \o new \o SubSeq(text, i + Len(old), Len(text))

\* apply_edit that treats a substitution as a deletion
ApplyEditAsDeletion(text, edit) ==
    CASE edit.edit_type \in {"substitution", "deletion"} ->
            ReplaceFirst(text, edit.original_text, <<>>)
      [] edit.edit_type = "insertion" ->
            Take(text, edit.position) \o edit.corrected_text
                \o Drop(text, edit.position)
      [] OTHER -> text

\* apply_edit that puts the corrected text in front for a reordering
ApplyEditReorders(text, edit) ==
    CASE edit.edit_type = "substitution" ->
            ReplaceFirst(text, edit.original_text, edit.corrected_text)
      [] edit.edit_type = "insertion" ->
            Take(text, edit.position) \o edit.corrected_text
                \o Drop(text, edit.position)
      [] edit.edit_type = "deletion" ->
            ReplaceFirst(text, edit.original_text, <<>>)
      [] OTHER -> edit.corrected_text \o text

ApplyEdit(text, edit) ==
    CASE edit.edit_type = "substitution" ->
            ReplaceFirst(text, edit.original_text, edit.corrected_text)
      [] edit.edit_type = "insertion" ->
            Take(text, edit.position) \o edit.corrected_text
                \o Drop(text, edit.position)
      [] edit.edit_type = "deletion" ->
            ReplaceFirst(text, edit.original_text, <<>>)
      [] OTHER -> text

\* ------------------------------------------------------------- add_to_memory
ReliableAtBar(e) == e.reliability_score >= PromotionBar
ReliableAboveNine(e) == e.reliability_score > PromotionBar + 1
Reliable(e) == e.reliability_score > PromotionBar

\* min(reliable_entries, key=last_accessed) as an index into the list: the
\* first of the reliable entries whose last_accessed is least
OldestReliableFirst(mem) ==
    CHOOSE i \in 1..Len(mem) :
        Reliable(mem[i]) /\ \A j \in 1..(i - 1) : ~Reliable(mem[j])
OldestReliable(mem) ==
    CHOOSE i \in 1..Len(mem) :
        /\ Reliable(mem[i])
        /\ \A j \in 1..Len(mem) :
              Reliable(mem[j]) =>
                  \/ mem[i].last_accessed < mem[j].last_accessed
                  \/ mem[i].last_accessed = mem[j].last_accessed /\ i <= j

\* list.remove(x): drops the first element equal to x
ListRemove(mem, x) ==
    LET i == CHOOSE k \in 1..Len(mem) :
                 mem[k] = x /\ \A j \in 1..(k - 1) : mem[j] # x
    IN  SubSeq(mem, 1, i - 1) \o SubSeq(mem, i + 1, Len(mem))

\* add_to_memory without the long-term capacity step
AddToMemoryNoEvict(stm, ltm, entry, scap, lcap) ==
    LET s1 == Append(stm, entry)
        over == Len(s1) > scap
        anyReliable == \E i \in 1..Len(s1) : Reliable(s1[i])
        idx == OldestReliable(s1)
        s2 == [s1 EXCEPT ![idx].memory_type = "long_term"]
    IN  << IF ~over THEN s1
           ELSE IF anyReliable THEN ListRemove(s2, s2[idx]) ELSE Tail(s1),
           IF over /\ anyReliable THEN Append(ltm, s2[idx]) ELSE ltm >>

\* add_to_memory whose long-term step drops the newest entry, pop()
AddToMemoryPopLast(stm, ltm, entry, scap, lcap) ==
    LET m == AddToMemoryNoEvict(stm, ltm, entry, scap, lcap)
    IN  << m[1],
           IF Len(m[2]) > lcap THEN SubSeq(m[2], 1, Len(m[2]) - 1) ELSE m[2] >>

\* the two tiers after add_to_memory(entry): <<short, long>>
AddToMemory(stm, ltm, entry, scap, lcap) ==
    LET s1 == Append(stm, entry)
        over == Len(s1) > scap
        anyReliable == \E i \in 1..Len(s1) : Reliable(s1[i])
        idx == OldestReliable(s1)
        \* oldest.memory_type = 'long_term' changes the object held in the list
        s2 == [s1 EXCEPT ![idx].memory_type = "long_term"]
        sOut == IF ~over THEN s1
                ELSE IF anyReliable THEN ListRemove(s2, s2[idx])
                ELSE Tail(s1)
        l1 == IF over /\ anyReliable THEN Append(ltm, s2[idx]) ELSE ltm
        lOut == IF Len(l1) > lcap THEN Tail(l1) ELSE l1
    IN  << sOut, lOut >>

\* ------------------------------------------------------- get_edit_provenance
\* an Optional[Dict] result: NoRecord for None, Some(r) for the record r
NoRecord == {}
Some(r) == {r}
TheRecord(opt) == CHOOSE r \in opt : TRUE

\* the (memory, edit) positions of the concatenated tiers that carry edit_id
ProvenanceHits(stm, ltm, edit_id) ==
    LET all == stm \o ltm
    IN  { p \in (1..Len(all)) \X (1..MaxCalls + MaxPending + 1) :
            /\ p[2] <= Len(all[p[1]].edit_history)
            /\ all[p[1]].edit_history[p[2]].edit_id = edit_id }

GetEditProvenance(stm, ltm, edit_id) ==
    LET all == stm \o ltm
        hits == ProvenanceHits(stm, ltm, edit_id)
        first == CHOOSE p \in hits :
                     \A q \in hits : p[1] < q[1] \/ (p[1] = q[1] /\ p[2] <= q[2])
        edit == all[first[1]].edit_history[first[2]]
    IN  IF hits = {} THEN NoRecord
        ELSE Some([ edit_id |-> edit.edit_id,
                    type |-> edit.edit_type,
                    timestamp |-> edit.timestamp,
                    hallucination_type |-> edit.hallucination_type,
                    provenance |-> edit.provenance,
                    confidence |-> edit.confidence,
                    memory_type |-> all[first[1]].memory_type ])

\* ================================================================ traversal
\* ------------------------------------------------------------------ numbers
RECURSIVE Gcd(_, _)
Gcd(a, b) == IF b = 0 THEN a ELSE Gcd(b, a % b)

\* the real number num/den (num >= 0, den > 0), in lowest terms
Rat(num, den) ==
    LET g == Gcd(num, den) IN [num |-> num \div g, den |-> den \div g]

RatZero == Rat(0, 1)
RatOne == Rat(1, 1)
RatAdd(a, b) == Rat(a.num * b.den + b.num * a.den, a.den * b.den)

\* -------------------------------------------------------------------- graph
Nodes == 1..NumNodes
\* an attribute dict holds the key 'weight' or not: {w} or {}
NoWeight == {}
Weight(w) == {w}

\* d.get('weight', default)
GetWeight(d, default) ==
    IF d.weight = NoWeight THEN default ELSE CHOOSE w \in d.weight : TRUE

LineEdges == { {i, i + 1} : i \in 1..(NumNodes - 1) }
ChordEdges == { {1, 3}, {4, 6} }
TemplateEdges == LineEdges \cup ChordEdges

\* the attribute dict of each edge a graph of the family may hold
EdgeData(e) ==
    LET i == CHOOSE u \in e : \A v \in e : u <= v
    IN  IF e = {1, 3} THEN [weight |-> Weight(20), type |-> "semantic"]
        ELSE IF e = {4, 6} THEN [weight |-> Weight(60), type |-> "citation"]
        ELSE [ weight |-> CASE i % 3 = 0 -> NoWeight
                            [] i % 3 = 1 -> Weight(80)
                            [] OTHER -> Weight(90),
               type |-> IF i % 2 = 0 THEN "citation" ELSE "semantic" ]

\* the graphs that lack at most MaxMissing of the template's edges
GraphFamily ==
    { [e \in TemplateEdges \ M |-> EdgeData(e)] :
        M \in { X \in SUBSET TemplateEdges : Cardinality(X) <= MaxMissing } }

\* graph.has_edge(u, v)
HasEdge(g, u, v) == u # v /\ {u, v} \in DOMAIN g

RECURSIVE SortedSeq(_)
SortedSeq(S) ==
    IF S = {} THEN <<>>
    ELSE LET m == CHOOSE x \in S : \A y \in S : x <= y
         IN  <<m>> \o SortedSeq(S \ {m})

\* graph.neighbors(u) / G[u], in the order the adjacency dict iterates
Neighbors(g, u) == SortedSeq({ v \in Nodes : HasEdge(g, u, v) })

Range(f) == { f[i] : i \in DOMAIN f }

\* ------------------------------------------------- compute_semantic_coherence
\* the score of the hop path[i] -> path[i+1], in hundredths
HopScore(g, u, v) ==
    IF HasEdge(g, u, v)
    THEN GetWeight(g[{u, v}], CoherenceDefaultWeight)
    ELSE NonAdjacentPenalty

RECURSIVE SumHops(_, _, _)
SumHops(g, path, i) ==
    IF i >= Len(path) THEN 0
    ELSE HopScore(g, path[i], path[i + 1]) + SumHops(g, path, i + 1)

ComputeCoherence(g, path) ==
    IF Len(path) < 2 THEN RatOne
    ELSE Rat(SumHops(g, path, 1), 100 * (Len(path) - 1))

\* len(path) * (1.0 - coherence)
PathCost(g, path) ==
    LET c == ComputeCoherence(g, path)
    IN  Rat(Len(path) * (c.den - c.num), c.den)

\* ------------------------------------------------------------- citation_walk
\* a walk that takes the newest queue entry first, queue.pop()
RECURSIVE CitationWalkLoopDepthFirst(_, _, _, _)
CitationWalkLoopDepthFirst(g, queue, citation_path, max_depth) ==
    IF queue = <<>> THEN citation_path
    ELSE LET last == queue[Len(queue)]
             node == last[1]
             depth == last[2]
             rest == SubSeq(queue, 1, Len(queue) - 1)
             visited == Range(citation_path)
             nbrs == Neighbors(g, node)
             more == SelectSeq(nbrs, LAMBDA v :
                         g[{node, v}].type = "citation"
                             /\ v \notin (visited \cup {node}))
         IN  IF node \in visited \/ depth > max_depth
             THEN CitationWalkLoopDepthFirst(g, rest, citation_path, max_depth)
             ELSE CitationWalkLoopDepthFirst(
                      g,
                      rest \o [i \in 1..Len(more) |-> <<more[i], depth + 1>>],
                      Append(citation_path, node), max_depth)

RECURSIVE CitationWalkLoop(_, _, _, _)
CitationWalkLoop(g, queue, citation_path, max_depth) ==
    IF queue = <<>> THEN citation_path
    ELSE LET node == Head(queue)[1]
             depth == Head(queue)[2]
             visited == Range(citation_path)
             nbrs == Neighbors(g, node)
             more == SelectSeq(nbrs, LAMBDA v :
                         g[{node, v}].type = "citation"
                             /\ v \notin (visited \cup {node}))
         IN  IF node \in visited \/ depth > max_depth
             THEN CitationWalkLoop(g, Tail(queue), citation_path, max_depth)
             ELSE CitationWalkLoop(
                      g,
                      Tail(queue) \o [i \in 1..Len(more) |-> <<more[i], depth + 1>>],
                      Append(citation_path, node), max_depth)

CitationWalk(g, start_node, max_depth) ==
    CitationWalkLoop(g, << <<start_node, 0>> >>, <<>>, max_depth)

\* ------------------------------------------------------------------ networkx
\* nodes reachable from s
RECURSIVE Grow(_, _)
Grow(g, seen) ==
    LET next == seen \cup { v \in Nodes : \E u \in seen : HasEdge(g, u, v) }
    IN  IF next = seen THEN seen ELSE Grow(g, next)

\* nx.has_path(G, s, t)
HasPath(g, s, t) == t \in Grow(g, {s})

\* the depth-first enumeration of nx.all_simple_paths: the simple paths that
\* extend visited to t using at most cutoff edges in all, in the order found
RECURSIVE PathsFrom(_, _, _, _), PathsVia(_, _, _, _, _)
PathsVia(g, visited, kids, t, cutoff) ==
    IF kids = <<>> THEN <<>>
    ELSE LET child == Head(kids)
             here == IF child \in Range(visited) THEN <<>>
                     ELSE IF child = t THEN << Append(visited, t) >>
                     ELSE IF Len(visited) < cutoff
                          THEN PathsFrom(g, Append(visited, child), t, cutoff)
                          ELSE <<>>
         IN  here \o PathsVia(g, visited, Tail(kids), t, cutoff)

PathsFrom(g, visited, t, cutoff) ==
    PathsVia(g, visited, Neighbors(g, visited[Len(visited)]), t, cutoff)

\* list(nx.all_simple_paths(G, s, t, cutoff)); for s = t the result is [] or
\* [[s]] according to the networkx release
AllSimplePaths(g, s, t, cutoff, singleton) ==
    IF s = t THEN (IF singleton THEN << <<s>> >> ELSE <<>>)
    ELSE PathsFrom(g, <<s>>, t, cutoff)

\* 1.0 / (base_weight + 0.01) of an edge, times WeightScale
WeightValues == {20, 60, 80, 90, DijkstraDefaultWeight}

RECURSIVE Product(_)
Product(S) ==
    IF S = {} THEN 1
    ELSE LET x == CHOOSE y \in S : TRUE IN x * Product(S \ {x})

WeightScale == Product({ w + 1 : w \in WeightValues })

WeightFunc(g, u, v) ==
    LET base_weight == GetWeight(g[{u, v}], DijkstraDefaultWeight)
    IN  WeightScale \div (base_weight + 1)

RECURSIVE PathLength(_, _, _)
PathLength(g, path, i) ==
    IF i >= Len(path) THEN 0
    ELSE WeightFunc(g, path[i], path[i + 1]) + PathLength(g, path, i + 1)

\* nx.shortest_path(G, s, t, weight=weight_func): the paths Dijkstra may return
ShortestPaths(g, s, t) ==
    LET all == IF s = t THEN { <<s>> }
               ELSE Range(PathsFrom(g, <<s>>, t, NumNodes))
    IN  { p \in all : \A q \in all : PathLength(g, p, 1) <= PathLength(g, q, 1) }

\* ------------------------------------------------------- classical_traversal
\* the (path, cost) pairs classical_traversal(s, t) may return
ClassicalNoCatch(g, s, t) ==
    { [path |-> p, cost |-> PathCost(g, p)] : p \in ShortestPaths(g, s, t) }
        \cup (IF HasPath(g, s, t) THEN {} ELSE { [path |-> <<>>, cost |-> RatZero] })
ClassicalTraversal(g, s, t) ==
    IF ShortestPaths(g, s, t) = {}
    THEN { [path |-> <<s>>, cost |-> RatZero] }
    ELSE { [path |-> p, cost |-> PathCost(g, p)] : p \in ShortestPaths(g, s, t) }

\* ------------------------------------------------------------ qaoa_traversal
\* all_paths after all_paths[:10]
Candidates(g, s, t, singleton) ==
    LET all == AllSimplePaths(g, s, t, PathCutoff, singleton)
    IN  SubSeq(all, 1, IF Len(all) < MaxCandidates THEN Len(all) ELSE MaxCandidates)

\* qaoa_traversal returns before it builds the selection problem
ReturnsEarly(g, s, t, singleton) ==
    ~HasPath(g, s, t) \/ Candidates(g, s, t, singleton) = <<>>

\* the except branch: return self.classical_traversal(start_node, target_node)
FallbackDegenerate(g, s, t) == { [path |-> <<s>>, cost |-> RatZero] }
Fallback(g, s, t) == ClassicalTraversal(g, s, t)

\* the objective value of the answer x: sum of cost_i * x_i
RECURSIVE Objective(_, _, _, _)
Objective(g, paths, x, i) ==
    IF i > Len(paths) THEN RatZero
    ELSE IF x[i] = 1
         THEN RatAdd(PathCost(g, paths[i]), Objective(g, paths, x, i + 1))
         ELSE Objective(g, paths, x, i + 1)

\* lines 150-160: the first path whose variable is set, else the first path
Extract(g, paths, x) ==
    LET set == { i \in 1..Len(paths) : x[i] = 1 }
        selected_idx == CHOOSE i \in set : \A j \in set : i <= j
    IN  IF set # {}
        THEN [path |-> paths[selected_idx], cost |-> Objective(g, paths, x, 1)]
        ELSE [path |-> paths[1], cost |-> RatZero]

\* ------------------------------------------------------------------ traverse
\* a traverse that seeds the citation walk from the first node of the path
TraversalResultFromStart(g, pc_, method, use_citations) ==
    [ path |-> pc_.path,
      citations |-> IF use_citations /\ pc_.path # <<>>
                    THEN CitationWalk(g, pc_.path[1], CitationDepth)
                    ELSE <<>>,
      cost |-> pc_.cost,
      coherence |-> ComputeCoherence(g, pc_.path),
      method |-> method,
      path_length |-> Len(pc_.path) ]

\* the record traverse returns for the (path, cost) of the chosen method
TraversalResult(g, pc_, method, use_citations) ==
    [ path |-> pc_.path,
      citations |-> IF use_citations /\ pc_.path # <<>>
                    THEN CitationWalk(g, pc_.path[Len(pc_.path)], CitationDepth)
                    ELSE <<>>,
      cost |-> pc_.cost,
      coherence |-> ComputeCoherence(g, pc_.path),
      method |-> method,
      path_length |-> Len(pc_.path) ]

NoCall == [start |-> 0, target |-> 0, use_citations |-> FALSE]
NoResult == [ path |-> <<>>, citations |-> <<>>, cost |-> RatZero,
              coherence |-> RatZero, method |-> None, path_length |-> 0 ]

NoCoherenceCall == [path |-> <<>>, called |-> FALSE, value |-> RatZero]

NoCitationCall == [start |-> 0, max_depth |-> 0, called |-> FALSE, value |-> <<>>]

\* the traversal engine when no traverse call has been made on it
TraversalIdle ==
    /\ pc = "idle"
    /\ answer = <<>>
    /\ call = NoCall
    /\ solver_invoked = FALSE
    /\ outcome = None
    /\ result = NoResult
    /\ coherence_call = NoCoherenceCall
    /\ citation_call = NoCitationCall

\* =========================================================== context router
Layers == {"global", "domain", "language"}

\* ------------------------------------------------------- compute_similarity
Dot(a, b) == a[1] * b[1] + a[2] * b[2]
NormSq(a) == Dot(a, a)

\* a similarity is the real number num / sqrt(den2), den2 > 0
ComputeSimilarity(emb1, emb2) ==
    IF NormSq(emb1) = 0 \/ NormSq(emb2) = 0
    THEN [num |-> 0, den2 |-> 1]
    ELSE [num |-> Dot(emb1, emb2), den2 |-> NormSq(emb1) * NormSq(emb2)]

\* x * |x|: order on the reals is order on the signed squares
SignedSquare(x) == IF x < 0 THEN 0 - x * x ELSE x * x

\* a < b and a = b on similarities
SimLess(a, b) == SignedSquare(a.num) * b.den2 < SignedSquare(b.num) * a.den2
SimEqual(a, b) == SignedSquare(a.num) * b.den2 = SignedSquare(b.num) * a.den2

\* similarity >= threshold, the threshold in ten-thousandths
SimAtLeast(sim, threshold) ==
    SignedSquare(sim.num) * ThresholdUnit * ThresholdUnit
        >= SignedSquare(threshold) * sim.den2

\* ---------------------------------------------------------- adjust_threshold
\* np.clip(x, lo, hi) = minimum(hi, maximum(x, lo))
ClipNoFloor(x, lo, hi) == IF x > hi THEN hi ELSE x
Clip(x, lo, hi) ==
    LET up == IF x < lo THEN lo ELSE x
    IN  IF up > hi THEN hi ELSE up

\* query_complexity is in hundredths, the result in ten-thousandths
AdjustThreshold(base, lo, hi, layer, query_complexity, language_match) ==
    LET t1 == CASE layer = "global" -> base + GlobalRaise
                [] layer = "language" -> base - LanguageCut
                [] OTHER -> base
        t2 == t1 + (query_complexity - ComplexityMidpoint) * ComplexityGain
        t3 == IF language_match THEN t2 - LanguageMatchBonus ELSE t2
    IN  Clip(t3, lo, hi)

\* ------------------------------------------------------------- route_context
\* "if query_domain": None and the empty string are false
Truthy(str) == str # None /\ str # ""

\* the entry is not skipped by the language or the domain filter
PassesFilterNoLanguage(layer, entry, query_language, query_domain) ==
    ~(layer = "domain" /\ Truthy(query_domain) /\ entry.domain # query_domain)
PassesFilter(layer, entry, query_language, query_domain) ==
    /\ ~(layer = "language" /\ entry.language # query_language)
    /\ ~(layer = "domain" /\ Truthy(query_domain) /\ entry.domain # query_domain)

\* list.sort(key=similarity, reverse=True): stable, equal keys keep their order
InsertDesc(sorted, x) ==
    LET k == Cardinality({ i \in 1..Len(sorted) :
                             ~SimLess(sorted[i].similarity, x.similarity) })
    IN  SubSeq(sorted, 1, k) \o <<x>> \o SubSeq(sorted, k + 1, Len(sorted))

RECURSIVE SortDescUnstable(_)
SortDescUnstable(pairs) ==
    IF Len(pairs) <= 1 THEN pairs
    ELSE LET rest == SortDescUnstable(SubSeq(pairs, 1, Len(pairs) - 1))
             x == pairs[Len(pairs)]
             k == Cardinality({ i \in 1..Len(rest) :
                                  SimLess(x.similarity, rest[i].similarity) })
         IN  SubSeq(rest, 1, k) \o <<x>> \o SubSeq(rest, k + 1, Len(rest))
RECURSIVE SortDesc(_)
SortDesc(pairs) ==
    IF Len(pairs) <= 1 THEN pairs
    ELSE InsertDesc(SortDesc(SubSeq(pairs, 1, Len(pairs) - 1)), pairs[Len(pairs)])

\* layer_results before the sort: the (entry, similarity) pairs appended
LayerResults(store, base, lo, hi, layer, query_embedding, query_language, query_domain, query_complexity) ==
    LET threshold == AdjustThreshold(base, lo, hi, layer, query_complexity,
                                     layer = "language")
        kept == SelectSeq(store[layer], LAMBDA entry :
                    /\ PassesFilter(layer, entry, query_language, query_domain)
                    /\ SimAtLeast(ComputeSimilarity(query_embedding, entry.embedding),
                                  threshold))
    IN  [ i \in 1..Len(kept) |->
            [ entry |-> kept[i],
              similarity |-> ComputeSimilarity(query_embedding, kept[i].embedding) ] ]

\* the dict route_context returns
RouteResult(store, base, lo, hi, query_embedding, query_language, query_domain, query_complexity, top_k) ==
    [ layer \in Layers |->
        Take(SortDesc(LayerResults(store, base, lo, hi, layer, query_embedding,
                                   query_language, query_domain, query_complexity)),
             top_k) ]

\* ------------------------------------------------------------- merge_context
\* len(entry.content) // 4
EntryTokens(entry) == Len(entry.content) \div CharsPerToken

\* f"{score:.3f}": the similarity rounded to thousandths
\* the greatest k in lo..hi with k - 1/2 <= sim * ScoreUnit
RECURSIVE RoundWithin(_, _, _)
RoundWithin(sim, lo, hi) ==
    IF lo >= hi THEN lo
    ELSE LET mid == (lo + hi + 1) \div 2
         IN  IF SimLess(sim, [num |-> 2 * mid - 1,
                              den2 |-> 4 * ScoreUnit * ScoreUnit])
             THEN RoundWithin(sim, lo, mid - 1)
             ELSE RoundWithin(sim, mid, hi)

FormatScore(sim) == RoundWithin(sim, 0 - ScoreUnit, ScoreUnit)

\* the inner loop over one layer's entries from index i on:
\* <<context_parts, token_count>> when the loop ends or breaks
RECURSIVE MergeLayerNoBreak(_, _, _, _, _, _)
MergeLayerNoBreak(layer, entries, i, parts, token_count, max_tokens) ==
    IF i > Len(entries) THEN <<parts, token_count>>
    ELSE LET entry_tokens == EntryTokens(entries[i].entry)
         IN  IF token_count + entry_tokens > max_tokens
             THEN MergeLayerNoBreak(layer, entries, i + 1, parts, token_count,
                                    max_tokens)
             ELSE MergeLayerNoBreak(
                      layer, entries, i + 1,
                      Append(parts, [ layer |-> layer,
                                      score |-> FormatScore(entries[i].similarity),
                                      content |-> entries[i].entry.content ]),
                      token_count + entry_tokens, max_tokens)
RECURSIVE MergeLayer(_, _, _, _, _, _)
MergeLayer(layer, entries, i, parts, token_count, max_tokens) ==
    IF i > Len(entries) THEN <<parts, token_count>>
    ELSE LET entry_tokens == EntryTokens(entries[i].entry)
         IN  IF token_count + entry_tokens > max_tokens
             THEN <<parts, token_count>>
             ELSE MergeLayer(
                      layer, entries, i + 1,
                      Append(parts, [ layer |-> layer,
                                      score |-> FormatScore(entries[i].similarity),
                                      content |-> entries[i].entry.content ]),
                      token_count + entry_tokens, max_tokens)

LayerPriority == <<"language", "domain", "global">>

\* the outer loop from the j-th layer of layer_priority on
RECURSIVE MergeFrom(_, _, _, _, _)
MergeFrom(routed_context, j, parts, token_count, max_tokens) ==
    IF j > Len(LayerPriority) THEN parts
    ELSE LET m == MergeLayer(LayerPriority[j], routed_context[LayerPriority[j]], 1,
                             parts, token_count, max_tokens)
         IN  IF m[2] >= max_tokens THEN m[1]
             ELSE MergeFrom(routed_context, j + 1, m[1], m[2], max_tokens)

\* context_parts at the end of merge_context; the string returned joins them
MergeContextParts(routed_context, max_tokens) ==
    MergeFrom(routed_context, 1, <<>>, 0, max_tokens)

NoThresholdCall ==
    [layer |-> None, query_complexity |-> 0, language_match |-> FALSE,
     called |-> FALSE, value |-> 0]
NoRoute ==
    [ called |-> FALSE, query_embedding |-> <<0, 0>>, query_language |-> None,
      query_domain |-> None, query_complexity |-> 0, top_k |-> 0,
      results |-> [layer \in Layers |-> <<>>] ]
NoMerge ==
    [ called |-> FALSE, routed_context |-> [layer \in Layers |-> <<>>],
      max_tokens |-> 0, parts |-> <<>> ]

\* ACEContextRouter() with the default arguments, nothing called on it
RouterUnused ==
    /\ base_threshold = DefaultBaseThreshold
    /\ min_threshold = DefaultMinThreshold
    /\ max_threshold = DefaultMaxThreshold
    /\ context_store = [layer \in Layers |-> <<>>]
    /\ threshold_call = NoThresholdCall
    /\ routed = NoRoute
    /\ merged = NoMerge

\* =================================================================== stream
\* REPAIREditStream.__init__, for every pair of capacities
StreamInit ==
    /\ short_term_memory = <<>>
    /\ long_term_memory = <<>>
    /\ short_term_capacity \in 0..MaxCap
    /\ long_term_capacity \in 0..MaxCap
    /\ edit_counter = 0
    /\ hallucination_stats = [ht \in HallucinationTypes |-> 0]
    /\ now = 0
    /\ pending = <<>>
    /\ last_call = [op |-> "init", entry |-> None, result |-> None]
    /\ graph = [e \in LineEdges |-> EdgeData(e)]
    /\ use_quantum = FALSE
    /\ singleton_paths = FALSE
    /\ TraversalIdle
    /\ RouterUnused
    /\ ThreadsUnused

\* context.get('source', 'unknown')
SourceOf(context) == IF context.source = None THEN "unknown" ELSE context.source

\* apply_edits(text, context)
ApplyEdits(text, context) ==
    LET hallucination == DetectHallucination(text, context)
        t == now + 1
        edit == NewEdit(edit_counter, "substitution", 0, text,
                        <<"[CORRECTED] ">> \o text, EditConfidence,
                        hallucination, SourceOf(context), t)
        edits_applied == IF hallucination # None THEN <<edit>> ELSE <<>>
        current_text == IF hallucination # None THEN ApplyEdit(text, edit) ELSE text
        memory_entry == [ content |-> current_text,
                          memory_type |-> "short_term",
                          edit_history |-> edits_applied,
                          reliability_score |-> 10 - Len(edits_applied),
                          last_accessed |-> t ]
        mem == AddToMemory(short_term_memory, long_term_memory, memory_entry,
                           short_term_capacity, long_term_capacity)
    IN  /\ now < MaxCalls
        /\ now' = t
        /\ edit_counter' = IF hallucination # None THEN NextCounter(edit_counter)
                           ELSE edit_counter
        /\ hallucination_stats' = BumpStats(hallucination_stats, hallucination)
        /\ short_term_memory' = mem[1]
        /\ long_term_memory' = mem[2]
        /\ last_call' =
              [ op |-> "apply_edits",
                entry |-> memory_entry,
                result |->
                  [ original_text |-> text,
                    edited_text |-> current_text,
                    edits_applied |->
                      [ i \in 1..Len(edits_applied) |->
                          [ edit_id |-> edits_applied[i].edit_id,
                            type |-> edits_applied[i].edit_type,
                            hallucination |-> edits_applied[i].hallucination_type,
                            confidence |-> edits_applied[i].confidence,
                            provenance |-> edits_applied[i].provenance ] ],
                    reliability_score |-> memory_entry.reliability_score,
                    hallucination_detected |-> hallucination ] ]
        /\ UNCHANGED << short_term_capacity, long_term_capacity, pending >>
        /\ UNCHANGED traversalVars
        /\ UNCHANGED routerVars
        /\ UNCHANGED threadVars

\* a direct create_edit call; the caller keeps the Edit it gets back
CreateEdit(edit_type, position, original, corrected, ht) ==
    /\ now < MaxCalls
    /\ Len(pending) < MaxPending
    /\ now' = now + 1
    /\ edit_counter' = NextCounter(edit_counter)
    /\ hallucination_stats' = BumpStats(hallucination_stats, ht)
    /\ pending' = Append(pending,
                         NewEdit(edit_counter, edit_type, position, original,
                                 corrected, EditConfidence, ht, None, now'))
    /\ last_call' = [op |-> "create_edit", entry |-> None,
                     result |-> pending'[Len(pending')]]
    /\ UNCHANGED << short_term_memory, long_term_memory, short_term_capacity,
                    long_term_capacity >>
    /\ UNCHANGED traversalVars
    /\ UNCHANGED routerVars
    /\ UNCHANGED threadVars

\* a direct add_to_memory call with an entry the caller built at time ts,
\* carrying the edits the caller created and has not stored yet
AddToMemoryCall(memory_type, rel, ts) ==
    LET entry == [ content |-> <<"Quantum">>,
                   memory_type |-> memory_type,
                   edit_history |-> pending,
                   reliability_score |-> rel,
                   last_accessed |-> ts ]
        mem == AddToMemory(short_term_memory, long_term_memory, entry,
                           short_term_capacity, long_term_capacity)
    IN  /\ now < MaxCalls
        /\ ts <= now + 1
        /\ now' = now + 1
        /\ short_term_memory' = mem[1]
        /\ long_term_memory' = mem[2]
        /\ pending' = <<>>
        /\ last_call' = [op |-> "add_to_memory", entry |-> entry, result |-> None]
        /\ UNCHANGED << short_term_capacity, long_term_capacity, edit_counter,
                        hallucination_stats >>
        /\ UNCHANGED traversalVars
        /\ UNCHANGED routerVars
        /\ UNCHANGED threadVars

DirectReliabilities == {8, 9}

StreamNext ==
    \/ \E text \in StreamTexts, context \in StreamContexts :
          ApplyEdits(text, context)
    \/ \E ht \in {None, "factual_error"} :
          CreateEdit("reordering", 0, <<"Quantum">>, <<"Limit">>, ht)
    \/ \E memory_type \in {"short_term", "long_term"},
          rel \in DirectReliabilities, ts \in {0, now + 1} :
          AddToMemoryCall(memory_type, rel, ts)

StreamSpec == StreamInit /\ [][StreamNext]_vars

\* ------------------------------- apply_edits calls that are not serialized
\* Each thread runs apply_edits statement by statement on the shared stream.
\* The locals of a call are kept in workers[th]; pc names the statement the
\* thread executes next.
Resting == {"idle", "done", "failed"}

\* the thread's locals after a step
Locals(th, w) == [workers EXCEPT ![th] = w]

\* lines 174-178 and, with nothing detected, 196-201: the call begins, runs
\* the detection on its own arguments and builds what it can without the stream
BeginApplyEdits(th, text, context) ==
    LET hallucination == DetectHallucination(text, context)
        t == now + 1
        memory_entry == [ content |-> text, memory_type |-> "short_term",
                          edit_history |-> <<>>, reliability_score |-> 10,
                          last_accessed |-> t ]
    IN  /\ workers[th].pc \in Resting
        /\ now < MaxCalls
        /\ now' = t
        /\ overlapped' = (overlapped \/ \E other \in Threads \ {th} :
                                           workers[other].pc \notin Resting)
        /\ workers' = Locals(th,
              [ pc |-> IF hallucination # None THEN "read_counter" ELSE "append",
                text |-> text, hallucination |-> hallucination,
                provenance |-> SourceOf(context), t |-> t, tmp |-> 0,
                edits_applied |-> <<>>,
                entry |-> IF hallucination # None THEN <<>> ELSE <<memory_entry>>,
                oldest |-> <<>> ])
        /\ UNCHANGED << short_term_memory, long_term_memory, short_term_capacity,
                        long_term_capacity, edit_counter, hallucination_stats,
                        pending, last_call, readers >>
        /\ UNCHANGED traversalVars
        /\ UNCHANGED routerVars

\* what a step leaves alone besides the fields it names
StreamFrame ==
    /\ UNCHANGED << short_term_capacity, long_term_capacity, now, pending,
                    last_call, overlapped, readers >>
    /\ UNCHANGED traversalVars
    /\ UNCHANGED routerVars

\* line 126, self.edit_counter += 1: the read of the counter
ReadCounter(th) ==
    /\ workers[th].pc = "read_counter"
    /\ workers' = Locals(th, [workers[th] EXCEPT !.pc = "write_counter",
                                                 !.tmp = edit_counter])
    /\ UNCHANGED << short_term_memory, long_term_memory, edit_counter,
                    hallucination_stats >>
    /\ StreamFrame

\* line 126: the write of the counter
WriteCounter(th) ==
    /\ workers[th].pc = "write_counter"
    /\ edit_counter' = NextCounter(workers[th].tmp)
    /\ workers' = Locals(th, [workers[th] EXCEPT !.pc = "make_edit"])
    /\ UNCHANGED << short_term_memory, long_term_memory, hallucination_stats >>
    /\ StreamFrame

\* lines 127-141 and 192-201: the id is formatted from the counter as it reads
\* now, the statistics are counted, the edit is applied to the local text and
\* the MemoryEntry is built
MakeEdit(th) ==
    LET w == workers[th]
        edit == [ NewEdit(edit_counter, "substitution", 0, w.text,
                          <<"[CORRECTED] ">> \o w.text, EditConfidence,
                          w.hallucination, w.provenance, w.t)
                  EXCEPT !.edit_id = EditId(edit_counter) ]
        memory_entry == [ content |-> ApplyEdit(w.text, edit),
                          memory_type |-> "short_term",
                          edit_history |-> <<edit>>,
                          reliability_score |-> 10 - 1,
                          last_accessed |-> w.t ]
    IN  /\ w.pc = "make_edit"
        /\ hallucination_stats' = BumpStats(hallucination_stats, w.hallucination)
        /\ workers' = Locals(th, [w EXCEPT !.pc = "append",
                                           !.edits_applied = <<edit>>,
                                           !.entry = <<memory_entry>>])
        /\ UNCHANGED << short_term_memory, long_term_memory, edit_counter >>
        /\ StreamFrame

\* line 230: self.short_term_memory.append(entry)
AppendEntry(th) ==
    /\ workers[th].pc = "append"
    /\ short_term_memory' = Append(short_term_memory, workers[th].entry[1])
    /\ workers' = Locals(th, [workers[th] EXCEPT !.pc = "check"])
    /\ UNCHANGED << long_term_memory, edit_counter, hallucination_stats >>
    /\ StreamFrame

\* line 233: the length check
CheckLength(th) ==
    /\ workers[th].pc = "check"
    /\ workers' = Locals(th,
          [workers[th] EXCEPT !.pc =
              IF Len(short_term_memory) > short_term_capacity THEN "select"
              ELSE "long_check"])
    /\ UNCHANGED << short_term_memory, long_term_memory, edit_counter,
                    hallucination_stats >>
    /\ StreamFrame

\* lines 235-241: reliable_entries and the choice of oldest; with no reliable
\* entry, line 247 in the same step: self.short_term_memory.pop(0), IndexError
\* on an empty list
SelectOldest(th) ==
    LET anyReliable == \E i \in 1..Len(short_term_memory) :
                           Reliable(short_term_memory[i])
    IN  /\ workers[th].pc = "select"
        /\ workers' = Locals(th,
              IF anyReliable
              THEN [workers[th] EXCEPT
                      !.pc = "promote",
                      !.oldest = << short_term_memory[OldestReliable(short_term_memory)] >>]
              ELSE [workers[th] EXCEPT
                      !.pc = IF short_term_memory = <<>> THEN "failed"
                             ELSE "long_check"])
        /\ short_term_memory' =
              IF anyReliable \/ short_term_memory = <<>> THEN short_term_memory
              ELSE Tail(short_term_memory)
        /\ UNCHANGED << long_term_memory, edit_counter, hallucination_stats >>
        /\ StreamFrame

\* the entry object e after memory_type = 'long_term'
Relabelled(e) == [e EXCEPT !.memory_type = "long_term"]

\* every reference in refs to the object obj shows its new label; an entry
\* object is known by its last_accessed
Relabel(refs, obj) ==
    [ i \in 1..Len(refs) |->
        IF refs[i].last_accessed = obj.last_accessed THEN Relabelled(refs[i])
        ELSE refs[i] ]

\* lines 242-243: oldest.memory_type = 'long_term' and
\* self.long_term_memory.append(oldest)
PromoteOldest(th) ==
    LET obj == workers[th].oldest[1]
    IN  /\ workers[th].pc = "promote"
        /\ short_term_memory' = Relabel(short_term_memory, obj)
        /\ long_term_memory' = Append(Relabel(long_term_memory, obj), Relabelled(obj))
        /\ workers' = [ other \in Threads |->
                          [workers[other] EXCEPT
                              !.pc = IF other = th THEN "remove" ELSE @,
                              !.oldest = Relabel(@, obj)] ]
        /\ UNCHANGED << edit_counter, hallucination_stats >>
        /\ StreamFrame

\* line 244: self.short_term_memory.remove(oldest); ValueError when the list
\* no longer holds it, which ends the call
RemoveOldest(th) ==
    LET obj == workers[th].oldest[1]
        held == \E k \in 1..Len(short_term_memory) : short_term_memory[k] = obj
    IN  /\ workers[th].pc = "remove"
        /\ short_term_memory' = IF held THEN ListRemove(short_term_memory, obj)
                                ELSE short_term_memory
        /\ workers' = Locals(th, [workers[th] EXCEPT
                                     !.pc = IF held THEN "long_check" ELSE "failed"])
        /\ UNCHANGED << long_term_memory, edit_counter, hallucination_stats >>
        /\ StreamFrame

\* lines 250-251 and the return of apply_edits
ManageLongTerm(th) ==
    /\ workers[th].pc = "long_check"
    /\ long_term_memory' = IF Len(long_term_memory) > long_term_capacity
                           THEN Tail(long_term_memory) ELSE long_term_memory
    /\ workers' = Locals(th, [workers[th] EXCEPT !.pc = "done"])
    /\ UNCHANGED << short_term_memory, edit_counter, hallucination_stats >>
    /\ StreamFrame

\* the contexts of the concurrent calls
ConcurrentContexts == { c \in StreamContexts : c.source # None }

ConcurrentNext ==
    \E th \in Threads :
        \/ \E text \in StreamTexts, context \in ConcurrentContexts :
              BeginApplyEdits(th, text, context)
        \/ ReadCounter(th)
        \/ WriteCounter(th)
        \/ MakeEdit(th)
        \/ AppendEntry(th)
        \/ CheckLength(th)
        \/ SelectOldest(th)
        \/ PromoteOldest(th)
        \/ RemoveOldest(th)
        \/ ManageLongTerm(th)

\* a new stream with every short-term capacity and the largest long-term one
ConcurrentInit ==
    /\ StreamInit
    /\ long_term_capacity = MaxCap

ConcurrentSpec == ConcurrentInit /\ [][ConcurrentNext]_vars

\* ------------------------------------------- a stream driven by apply_edits
\* texts and contexts: the empty text and a context without entities included
ApplyTexts == StreamTexts \cup { <<>> }

ApplyContexts == StreamContexts \cup { [entities |-> <<>>, source |-> "doc"] }

ApplyEditsNext ==
    \E text \in ApplyTexts, context \in ApplyContexts : ApplyEdits(text, context)

ApplyEditsSpec == StreamInit /\ [][ApplyEditsNext]_vars

\* ========================================================= traversal engine
\* a fresh stream that no call is made on
StreamUnused ==
    /\ short_term_memory = <<>>
    /\ long_term_memory = <<>>
    /\ short_term_capacity = MaxCap
    /\ long_term_capacity = MaxCap
    /\ edit_counter = 0
    /\ hallucination_stats = [ht \in HallucinationTypes |-> 0]
    /\ now = 0
    /\ pending = <<>>
    /\ last_call = [op |-> "init", entry |-> None, result |-> None]

\* QuantumGraphTraversal(graph, use_quantum) over every graph of the family
TraversalInit ==
    /\ StreamUnused
    /\ graph \in GraphFamily
    /\ use_quantum \in BOOLEAN
    /\ singleton_paths \in BOOLEAN
    /\ TraversalIdle
    /\ RouterUnused
    /\ ThreadsUnused

MethodLabel == IF use_quantum THEN "quantum_qaoa" ELSE "classical_dijkstra"

\* traverse returns: the rest of the method after path, cost are known
Finish(pc_, how) ==
    /\ pc' = "done"
    /\ outcome' = how
    /\ result' = TraversalResult(graph, pc_, MethodLabel, call'.use_citations)

\* traverse(s, t, use_citations) with use_quantum false
ClassicalCall(s, t, use_citations) ==
    /\ pc = "idle"
    /\ ~use_quantum
    /\ call' = [start |-> s, target |-> t, use_citations |-> use_citations]
    /\ \E r \in ClassicalTraversal(graph, s, t) : Finish(r, "classical")
    /\ solver_invoked' = FALSE
    /\ UNCHANGED << graph, use_quantum, singleton_paths, coherence_call, citation_call, answer >>
    /\ UNCHANGED streamVars
    /\ UNCHANGED routerVars
    /\ UNCHANGED threadVars

\* traverse with use_quantum true, qaoa_traversal returning at line 112 or 119
QaoaReturnsEarly(s, t, use_citations) ==
    /\ pc = "idle"
    /\ use_quantum
    /\ call' = [start |-> s, target |-> t, use_citations |-> use_citations]
    /\ ReturnsEarly(graph, s, t, singleton_paths)
    /\ Finish([path |-> <<s>>, cost |-> RatZero],
              IF HasPath(graph, s, t) THEN "no_candidates" ELSE "no_path")
    /\ solver_invoked' = FALSE
    /\ UNCHANGED << graph, use_quantum, singleton_paths, coherence_call, citation_call, answer >>
    /\ UNCHANGED streamVars
    /\ UNCHANGED routerVars
    /\ UNCHANGED threadVars

\* traverse with use_quantum true, an exception raised while the quadratic
\* program is built (lines 125-147)
QaoaBuildRaises(s, t, use_citations) ==
    /\ pc = "idle"
    /\ use_quantum
    /\ call' = [start |-> s, target |-> t, use_citations |-> use_citations]
    /\ ~ReturnsEarly(graph, s, t, singleton_paths)
    /\ \E r \in Fallback(graph, s, t) : Finish(r, "fallback")
    /\ solver_invoked' = FALSE
    /\ UNCHANGED << graph, use_quantum, singleton_paths, coherence_call, citation_call, answer >>
    /\ UNCHANGED streamVars
    /\ UNCHANGED routerVars
    /\ UNCHANGED threadVars

\* traverse with use_quantum true, up to the call optimizer.solve(qp)
QaoaSolve(s, t, use_citations) ==
    /\ pc = "idle"
    /\ use_quantum
    /\ pc' = "solving"
    /\ call' = [start |-> s, target |-> t, use_citations |-> use_citations]
    /\ ~ReturnsEarly(graph, s, t, singleton_paths)
    /\ solver_invoked' = TRUE
    /\ UNCHANGED << graph, use_quantum, singleton_paths, coherence_call, citation_call, answer, outcome, result >>
    /\ UNCHANGED streamVars
    /\ UNCHANGED routerVars
    /\ UNCHANGED threadVars

\* the assignments result.x the backend may return for n variables
Answers(n) ==
    { x \in [1..n -> {0, 1}] :
        Cardinality({ i \in 1..n : x[i] = 1 }) <= MaxSelected }

\* optimizer.solve returns with the assignment x
SolverAnswers ==
    /\ pc = "solving"
    /\ pc' = "answered"
    /\ \E x \in Answers(Len(Candidates(graph, call.start, call.target,
                                       singleton_paths))) : answer' = x
    /\ UNCHANGED << graph, use_quantum, singleton_paths, coherence_call, citation_call, call, solver_invoked,
                    outcome, result >>
    /\ UNCHANGED streamVars
    /\ UNCHANGED routerVars
    /\ UNCHANGED threadVars

\* optimizer.solve raises
SolverRaises ==
    /\ pc = "solving"
    /\ pc' = "raised"
    /\ UNCHANGED << graph, use_quantum, singleton_paths, coherence_call, citation_call, answer, call,
                    solver_invoked, outcome, result >>
    /\ UNCHANGED streamVars
    /\ UNCHANGED routerVars
    /\ UNCHANGED threadVars

\* lines 150-160 pick the path, and traverse runs to its return
ExtractPath ==
    LET paths == Candidates(graph, call.start, call.target, singleton_paths)
    IN  /\ pc = "answered"
        /\ call' = call
        /\ Finish(Extract(graph, paths, answer),
                  IF \E i \in 1..Len(paths) : answer[i] = 1 THEN "selected"
                  ELSE "first_candidate")
        /\ UNCHANGED << graph, use_quantum, singleton_paths, coherence_call, citation_call, answer,
                        solver_invoked >>
        /\ UNCHANGED streamVars
        /\ UNCHANGED routerVars
        /\ UNCHANGED threadVars

\* line 162 catches the exception, and traverse runs to its return
CatchAndFallBack ==
    /\ pc = "raised"
    /\ call' = call
    /\ \E r \in Fallback(graph, call.start, call.target) : Finish(r, "fallback")
    /\ UNCHANGED << graph, use_quantum, singleton_paths, coherence_call, citation_call, answer, solver_invoked >>
    /\ UNCHANGED streamVars
    /\ UNCHANGED routerVars
    /\ UNCHANGED threadVars

\* the steps the engine takes; it is stateless, one call is followed to its end
EngineNext ==
    \/ \E s \in Nodes, t \in Nodes, c \in BOOLEAN : ClassicalCall(s, t, c)
    \/ \E s \in Nodes, t \in Nodes, c \in BOOLEAN : QaoaReturnsEarly(s, t, c)
    \/ \E s \in Nodes, t \in Nodes, c \in BOOLEAN : QaoaBuildRaises(s, t, c)
    \/ \E s \in Nodes, t \in Nodes, c \in BOOLEAN : QaoaSolve(s, t, c)
    \/ ExtractPath
    \/ CatchAndFallBack

\* the steps of the optimization backend
BackendNext ==
    \/ SolverAnswers
    \/ SolverRaises

TraversalNext == EngineNext \/ BackendNext

TraversalSpec == TraversalInit /\ [][TraversalNext]_vars

\* ------------------------------------- compute_semantic_coherence, directly
\* the node lists of at most MaxPathLen nodes
CoherencePaths ==
    UNION { [1..n -> Nodes] : n \in 0..MaxPathLen }

\* engine.compute_semantic_coherence(path)
ComputeCoherenceCall(path) ==
    /\ coherence_call' = [ path |-> path, called |-> TRUE,
                           value |-> ComputeCoherence(graph, path) ]
    /\ UNCHANGED << graph, use_quantum, singleton_paths, pc, answer, call,
                    solver_invoked, outcome, result, citation_call >>
    /\ UNCHANGED streamVars
    /\ UNCHANGED routerVars
    /\ UNCHANGED threadVars

CoherenceNext == \E path \in CoherencePaths : ComputeCoherenceCall(path)

CoherenceSpec == TraversalInit /\ [][CoherenceNext]_vars

\* ------------------------------------------------- citation_walk, directly
\* the template graph under every tagging of its edges
TypedGraphs ==
    { [e \in TemplateEdges |-> [weight |-> EdgeData(e).weight, type |-> ty[e]]] :
        ty \in [TemplateEdges -> {"citation", "semantic"}] }

CitationInit ==
    /\ StreamUnused
    /\ graph \in TypedGraphs
    /\ use_quantum = FALSE
    /\ singleton_paths = FALSE
    /\ TraversalIdle
    /\ RouterUnused
    /\ ThreadsUnused

\* engine.citation_walk(start_node, max_depth)
CitationWalkCall(start_node, max_depth) ==
    /\ citation_call' = [ start |-> start_node, max_depth |-> max_depth,
                          called |-> TRUE,
                          value |-> CitationWalk(graph, start_node, max_depth) ]
    /\ UNCHANGED << graph, use_quantum, singleton_paths, pc, answer, call,
                    solver_invoked, outcome, result, coherence_call >>
    /\ UNCHANGED streamVars
    /\ UNCHANGED routerVars
    /\ UNCHANGED threadVars

CitationNext ==
    \E start_node \in Nodes, max_depth \in 0..MaxDepth :
        CitationWalkCall(start_node, max_depth)

CitationSpec == CitationInit /\ [][CitationNext]_vars

\* =========================================================== context router
\* a fresh traversal engine that no call is made on
TraversalUnused ==
    /\ graph = [e \in LineEdges |-> EdgeData(e)]
    /\ use_quantum = FALSE
    /\ singleton_paths = FALSE
    /\ TraversalIdle

\* the (base_threshold, threshold_range) arguments the router is built with
RouterConfigs ==
    { [base |-> DefaultBaseThreshold, lo |-> DefaultMinThreshold,
       hi |-> DefaultMaxThreshold],
      [base |-> 9300, lo |-> DefaultMinThreshold, hi |-> DefaultMaxThreshold],
      [base |-> 6000, lo |-> DefaultMinThreshold, hi |-> DefaultMaxThreshold],
      [base |-> DefaultBaseThreshold, lo |-> 7800, hi |-> 8200] }

\* ACEContextRouter(base_threshold, threshold_range) for the arguments of configs
RouterBuilt(configs) ==
    /\ StreamUnused
    /\ TraversalUnused
    /\ \E cfg \in configs :
          /\ base_threshold = cfg.base
          /\ min_threshold = cfg.lo
          /\ max_threshold = cfg.hi
    /\ context_store = [layer \in Layers |-> <<>>]
    /\ threshold_call = NoThresholdCall
    /\ routed = NoRoute
    /\ merged = NoMerge
    /\ ThreadsUnused

RouterInit == RouterBuilt(RouterConfigs)

\* query_complexity values, in hundredths
Complexities == {0, 10, 30, 50, 70, 100}

\* router.adjust_threshold(layer, query_complexity, language_match)
AdjustThresholdCall(layer, query_complexity, language_match) ==
    /\ threshold_call' =
          [ layer |-> layer, query_complexity |-> query_complexity,
            language_match |-> language_match, called |-> TRUE,
            value |-> AdjustThreshold(base_threshold, min_threshold, max_threshold,
                                      layer, query_complexity, language_match) ]
    /\ UNCHANGED << base_threshold, min_threshold, max_threshold, context_store,
                    routed, merged >>
    /\ UNCHANGED streamVars
    /\ UNCHANGED traversalVars
    /\ UNCHANGED threadVars

ThresholdNext ==
    \E layer \in Layers, query_complexity \in Complexities,
       language_match \in BOOLEAN :
       AdjustThresholdCall(layer, query_complexity, language_match)

ThresholdSpec == RouterInit /\ [][ThresholdNext]_vars

\* ------------------------------------------------ add_context, route_context
Entry(content, layer, embedding, language, domain) ==
    [ content |-> content, layer |-> layer, embedding |-> embedding,
      language |-> language, domain |-> domain ]

\* the entries the store is filled from
RouteEntries ==
    { Entry("ga", "global", <<2, 1>>, "en", None),
      Entry("gb", "global", <<1, 2>>, "es", "physics"),
      Entry("da", "domain", <<2, 1>>, "en", "physics"),
      Entry("db", "domain", <<1, 1>>, "en", "biology"),
      Entry("dc", "domain", <<1, 2>>, "es", None),
      Entry("la", "language", <<1, 0>>, "en", None),
      Entry("lb", "language", <<1, 1>>, "es", None),
      Entry("lc", "language", <<1, 2>>, "en", "physics") }

StoreSize == Len(context_store["global"]) + Len(context_store["domain"])
                 + Len(context_store["language"])

\* get_layer_stats(): layer.value -> len(entries)
GetLayerStats(store) == [layer \in Layers |-> Len(store[layer])]

\* an add_context that puts the entry in place of the layer's list
AddContextReplaces(entry) ==
    /\ ~routed.called
    /\ StoreSize < MaxStore
    /\ context_store' = [context_store EXCEPT ![entry.layer] = <<entry>>]
    /\ UNCHANGED << base_threshold, min_threshold, max_threshold, threshold_call,
                    routed, merged >>
    /\ UNCHANGED streamVars
    /\ UNCHANGED traversalVars
    /\ UNCHANGED threadVars

\* router.add_context(entry)
AddContext(entry) ==
    /\ ~routed.called
    /\ StoreSize < MaxStore
    /\ context_store' = [context_store EXCEPT ![entry.layer] = Append(@, entry)]
    /\ UNCHANGED << base_threshold, min_threshold, max_threshold, threshold_call,
                    routed, merged >>
    /\ UNCHANGED streamVars
    /\ UNCHANGED traversalVars
    /\ UNCHANGED threadVars

\* router.route_context(query_embedding, query_language, query_domain,
\* query_complexity, top_k); one call is followed per behaviour
RouteContext(query_embedding, query_language, query_domain, query_complexity, top_k) ==
    /\ ~routed.called
    /\ routed' =
          [ called |-> TRUE, query_embedding |-> query_embedding,
            query_language |-> query_language, query_domain |-> query_domain,
            query_complexity |-> query_complexity, top_k |-> top_k,
            results |-> RouteResult(context_store, base_threshold, min_threshold,
                                    max_threshold, query_embedding, query_language,
                                    query_domain, query_complexity, top_k) ]
    /\ UNCHANGED << base_threshold, min_threshold, max_threshold, context_store,
                    threshold_call, merged >>
    /\ UNCHANGED streamVars
    /\ UNCHANGED traversalVars
    /\ UNCHANGED threadVars

QueryEmbeddings == { <<1, 0>>, <<1, 1>> }
QueryLanguages == {"en", "es"}
QueryDomains == {None, "", "physics"}
QueryComplexities == {0, 50, 100}
TopKs == {0, 1, 2}

RouteNext ==
    \/ \E entry \in RouteEntries : AddContext(entry)
    \/ \E query_embedding \in QueryEmbeddings, query_language \in QueryLanguages,
          query_domain \in QueryDomains, query_complexity \in QueryComplexities,
          top_k \in TopKs :
          RouteContext(query_embedding, query_language, query_domain,
                       query_complexity, top_k)

\* the default router and one with a narrow threshold range
RouteInit ==
    RouterBuilt({ cfg \in RouterConfigs : cfg.base = DefaultBaseThreshold })

RouteSpec == RouteInit /\ [][RouteNext]_vars

\* --------------------------- route_context calls beside add_context calls
\* Each thread runs route_context one loop iteration per step, on the store
\* that add_context calls go on appending to. The locals of a call are kept in
\* readers[th].
\* for layer in ContextLayer: the order the enum declares
RouteOrder == <<"global", "domain", "language">>

\* the entries added and the queries routed while the store grows
ConcurrentEntries == { e \in RouteEntries : e.content \in {"ga", "la", "lc"} }

ConcurrentQueries ==
    { [ query_embedding |-> <<1, 1>>, query_language |-> "en",
        query_domain |-> None, query_complexity |-> 0, top_k |-> 2 ],
      [ query_embedding |-> <<1, 0>>, query_language |-> "en",
        query_domain |-> "physics", query_complexity |-> 50, top_k |-> 1 ] }

\* the calls in progress route different queries
OtherQuery(th, args) ==
    \A other \in Threads \ {th} :
        readers[other].pc = "idle" \/ readers[other].args # args

\* what a step of a reader leaves alone
RouterFrame ==
    /\ UNCHANGED << base_threshold, min_threshold, max_threshold, context_store,
                    threshold_call, routed, merged, workers, overlapped >>
    /\ UNCHANGED streamVars
    /\ UNCHANGED traversalVars

\* lines 127-130: results = {}, the first layer, layer_results = []
BeginRoute(th, args) ==
    /\ readers[th].pc = "idle"
    /\ OtherQuery(th, args)
    /\ readers' = [readers EXCEPT ![th] =
          [ pc |-> "scan", args |-> args, began |-> GetLayerStats(context_store),
            layer |-> 1, pos |-> 0, layer_results |-> <<>>,
            results |-> [layer \in Layers |-> <<>>] ]]
    /\ RouterFrame

\* lines 137-152: one iteration of for entry in self.context_store[layer]
ScanEntry(th) ==
    LET r == readers[th]
        layer == RouteOrder[r.layer]
        entry == context_store[layer][r.pos + 1]
        threshold == AdjustThreshold(base_threshold, min_threshold, max_threshold,
                                     layer, r.args.query_complexity,
                                     layer = "language")
        similarity == ComputeSimilarity(r.args.query_embedding, entry.embedding)
        keep == /\ PassesFilter(layer, entry, r.args.query_language,
                                r.args.query_domain)
                /\ SimAtLeast(similarity, threshold)
    IN  /\ r.pc = "scan"
        /\ r.pos < Len(context_store[layer])
        /\ readers' = [readers EXCEPT ![th] =
              [r EXCEPT !.pos = @ + 1,
                        !.layer_results =
                            IF keep
                            THEN Append(@, [entry |-> entry, similarity |-> similarity])
                            ELSE @]]
        /\ RouterFrame

\* a layer's loop that ends without the sort
FinishLayerUnsorted(th) ==
    LET r == readers[th]
        layer == RouteOrder[r.layer]
        last == r.layer = Len(RouteOrder)
    IN  /\ r.pc = "scan"
        /\ r.pos >= Len(context_store[layer])
        /\ readers' = [readers EXCEPT ![th] =
              [r EXCEPT !.results[layer] = Take(r.layer_results, r.args.top_k),
                        !.pc = IF last THEN "done" ELSE "scan",
                        !.layer = IF last THEN @ ELSE @ + 1,
                        !.pos = 0,
                        !.layer_results = <<>>]]
        /\ RouterFrame

\* the layer's list is exhausted; lines 155-156: sort, top_k, and the next
\* layer or the return
FinishLayer(th) ==
    LET r == readers[th]
        layer == RouteOrder[r.layer]
        last == r.layer = Len(RouteOrder)
    IN  /\ r.pc = "scan"
        /\ r.pos >= Len(context_store[layer])
        /\ readers' = [readers EXCEPT ![th] =
              [r EXCEPT !.results[layer] =
                            Take(SortDesc(r.layer_results), r.args.top_k),
                        !.pc = IF last THEN "done" ELSE "scan",
                        !.layer = IF last THEN @ ELSE @ + 1,
                        !.pos = 0,
                        !.layer_results = <<>>]]
        /\ RouterFrame

ReaderNext ==
    \E th \in Threads :
        \/ \E args \in ConcurrentQueries : BeginRoute(th, args)
        \/ ScanEntry(th)
        \/ FinishLayer(th)

ConcurrentRouteNext ==
    \/ \E entry \in ConcurrentEntries : AddContext(entry)
    \/ ReaderNext

\* ACEContextRouter() with the default arguments
ConcurrentRouteInit ==
    RouterBuilt({ cfg \in RouterConfigs : cfg.base = DefaultBaseThreshold
                                           /\ cfg.lo = DefaultMinThreshold })

ConcurrentRouteSpec == ConcurrentRouteInit /\ [][ConcurrentRouteNext]_vars

\* ------------------------------------------------------------ merge_context
\* the (entry, score) pairs a layer's routed list is made of: contents of
\* 8 and 12 characters, and 3 characters for the GLOBAL layer
MergeItems(layer) ==
    { [ entry |-> Entry("abcdefgh", layer, <<2, 1>>, "en", None),
        similarity |-> ComputeSimilarity(<<1, 0>>, <<2, 1>>) ],
      [ entry |-> Entry(IF layer = "global" THEN "abc" ELSE "abcdefghijkl",
                        layer, <<1, 1>>, "en", None),
        similarity |-> ComputeSimilarity(<<1, 0>>, <<1, 1>>) ] }

\* the lists of at most MaxRouted pairs of a layer
RoutedLists(layer) ==
    UNION { [1..n -> MergeItems(layer)] : n \in 0..MaxRouted }

\* the routed_context dicts merge_context is called with
RoutedContexts ==
    { [layer \in Layers |-> CASE layer = "language" -> l
                               [] layer = "domain" -> d
                               [] OTHER -> g] :
        l \in RoutedLists("language"), d \in RoutedLists("domain"),
        g \in RoutedLists("global") }

MaxTokenChoices == {0, 2, 4, 5, 7}

\* router.merge_context(routed_context, max_tokens); one call is followed per
\* behaviour
MergeContext(routed_context, max_tokens) ==
    /\ ~merged.called
    /\ merged' = [ called |-> TRUE, routed_context |-> routed_context,
                   max_tokens |-> max_tokens,
                   parts |-> MergeContextParts(routed_context, max_tokens) ]
    /\ UNCHANGED << base_threshold, min_threshold, max_threshold, context_store,
                    threshold_call, routed >>
    /\ UNCHANGED streamVars
    /\ UNCHANGED traversalVars
    /\ UNCHANGED threadVars

MergeNext ==
    \E routed_context \in RoutedContexts, max_tokens \in MaxTokenChoices :
        MergeContext(routed_context, max_tokens)

\* ACEContextRouter() with the default arguments
MergeInit ==
    /\ StreamUnused
    /\ TraversalUnused
    /\ RouterUnused
    /\ ThreadsUnused

MergeSpec == MergeInit /\ [][MergeNext]_vars

\* ------------------------------------- detect_hallucination, called directly
\* the texts of at most MaxTextLen pieces over the alphabet
TextsOver(alphabet) ==
    UNION { [1..n -> alphabet] : n \in 0..MaxTextLen }

DetectTexts ==
    TextsOver({"Research", "research", "shows", "According", "to", "QUANTUM"})

\* contexts: no entities, one entity, two entities, the empty string as entity
DetectContexts ==
    { [entities |-> <<>>, source |-> None],
      [entities |-> << <<"quantum">> >>, source |-> None],
      [entities |-> << <<"Limit">>, <<"Quantum">> >>, source |-> None],
      [entities |-> << <<"Limit">>, <<"shows", "According">> >>, source |-> None],
      [entities |-> << <<>> >>, source |-> None] }

\* a stream with the default arguments, beside an unused engine and router
EditInit ==
    /\ StreamUnused
    /\ TraversalUnused
    /\ RouterUnused
    /\ ThreadsUnused

\* stream.detect_hallucination(text, context)
DetectHallucinationCall(text, context) ==
    /\ last_call' = [ op |-> "detect_hallucination", entry |-> None,
                      result |-> [ text |-> text, context |-> context,
                                   hallucination |->
                                       DetectHallucination(text, context) ] ]
    /\ UNCHANGED << short_term_memory, long_term_memory, short_term_capacity,
                    long_term_capacity, edit_counter, hallucination_stats, now,
                    pending >>
    /\ UNCHANGED traversalVars
    /\ UNCHANGED routerVars
    /\ UNCHANGED threadVars

\* one call is followed per behaviour
DetectNext ==
    /\ last_call.op = "init"
    /\ \E text \in DetectTexts, context \in DetectContexts :
          DetectHallucinationCall(text, context)

DetectSpec == EditInit /\ [][DetectNext]_vars

\* ------------------------------------------------ apply_edit, called directly
\* the arguments create_edit is called with
EditShapes ==
    { [edit_type |-> "substitution", position |-> 0, original |-> <<"X">>,
       corrected |-> <<"Y">>],
      [edit_type |-> "deletion", position |-> 0, original |-> <<"X">>,
       corrected |-> <<>>],
      [edit_type |-> "reordering", position |-> 0, original |-> <<"X">>,
       corrected |-> <<"Y">>],
      [edit_type |-> "insertion", position |-> 1, original |-> <<>>,
       corrected |-> <<"Y">>] }

EditTexts == TextsOver({"X", "Y", "Z"})

\* stream.apply_edit(text, edit) with the k-th Edit the caller holds; one call
\* is followed per behaviour
ApplyEditCall(text, k) ==
    /\ last_call.op # "apply_edit"
    /\ k <= Len(pending)
    /\ last_call' = [ op |-> "apply_edit", entry |-> None,
                      result |-> [ text |-> text, edit |-> pending[k],
                                   edited |-> ApplyEdit(text, pending[k]) ] ]
    /\ UNCHANGED << short_term_memory, long_term_memory, short_term_capacity,
                    long_term_capacity, edit_counter, hallucination_stats, now,
                    pending >>
    /\ UNCHANGED traversalVars
    /\ UNCHANGED routerVars
    /\ UNCHANGED threadVars

EditNext ==
    \/ \E shape \in EditShapes, ht \in {None, "factual_error"} :
          /\ last_call.op # "apply_edit"
          /\ CreateEdit(shape.edit_type, shape.position, shape.original,
                        shape.corrected, ht)
    \/ \E text \in EditTexts, k \in 1..MaxPending : ApplyEditCall(text, k)

EditSpec == EditInit /\ [][EditNext]_vars

\* --------------------------------- apply_edits(traversal_path, edit_stream)
\* a join that leaves the first node out
RECURSIVE JoinPathSkipFirst(_)
JoinPathSkipFirst(path) ==
    IF Len(path) <= 1 THEN <<>>
    ELSE IF Len(path) = 2 THEN path[2]
    ELSE path[2] \o <<" -> ">> \o JoinPathSkipFirst(Tail(path))

\* " -> ".join(path)
RECURSIVE JoinPath(_)
JoinPath(path) ==
    IF path = <<>> THEN <<>>
    ELSE IF Len(path) = 1 THEN path[1]
    ELSE path[1] \o <<" -> ">> \o JoinPath(Tail(path))

\* node ids, the empty string among them
TrailNodes ==
    { <<"Research", "shows">>, <<"research">>, <<"shows">>,
      <<"According", "to">>, <<"Quantum">>, <<>> }

\* the traversal results passed in: paths of at most MaxTrail nodes
TraversalInfos ==
    { [path |-> path, coherence |-> CoherenceDefaultWeight] :
        path \in UNION { [1..n -> TrailNodes] : n \in 0..MaxTrail } }

\* apply_edits(traversal_path, edit_stream) on the stream at hand
PipelineApplyEdits(traversal_path) ==
    LET path == traversal_path.path
        text == JoinPath(path)
        context == [ entities |-> path, source |-> "quantum_traversal",
                     coherence |-> traversal_path.coherence ]
    IN  ApplyEdits(text, context)

\* one call is followed per behaviour
PipelineNext ==
    /\ now = 0
    /\ \E traversal_path \in TraversalInfos : PipelineApplyEdits(traversal_path)

PipelineSpec == EditInit /\ [][PipelineNext]_vars

\* ============================================================ stream claims
InsertOps == {"apply_edits", "add_to_memory"}

\* C1: after every completed apply_edits call, the short-term tier holds at
\* most short_term_capacity entries and the long-term tier at most
\* long_term_capacity entries.
C1_TiersWithinCapacity ==
    last_call.op = "apply_edits" =>
        /\ Len(short_term_memory) <= short_term_capacity
        /\ Len(long_term_memory) <= long_term_capacity

\* an apply_edits call has just filled both tiers and evicted from the long one
C1_Witness ==
    /\ last_call.op = "apply_edits"
    /\ now = MaxCalls
    /\ short_term_capacity = 1 /\ Len(short_term_memory) = 1
    /\ long_term_capacity = 1 /\ Len(long_term_memory) = 1
    /\ long_term_memory[1].last_accessed = 2

\* C2: every entry held in the long-term tier has reliability_score > 0.8.
C2_LongTermIsReliable ==
    \A i \in 1..Len(long_term_memory) :
        long_term_memory[i].reliability_score > PromotionBar

\* an entry at the bar (0.8) was inserted and dropped while the long-term tier
\* holds an entry
C2_Witness ==
    /\ last_call.op = "add_to_memory"
    /\ last_call.entry.reliability_score = PromotionBar
    /\ short_term_capacity = 0
    /\ short_term_memory = <<>>
    /\ long_term_memory # <<>>

\* the entry with memory_type left out of the comparison
Untiered(e) == [e EXCEPT !.memory_type = "tier"]
UntieredSeq(mem) == [i \in 1..Len(mem) |-> Untiered(mem[i])]
WithoutIndex(mem, i) == SubSeq(mem, 1, i - 1) \o SubSeq(mem, i + 1, Len(mem))

\* C3: an insertion that leaves the short-term tier over capacity removes
\* exactly one entry from it: an oldest entry among those with
\* reliability_score > 0.8 goes to the tail of the long-term tier, whose head
\* is dropped if that tier is then over capacity; if no entry qualifies the
\* head of the short-term tier is dropped and the long-term tier is unchanged.
\* An insertion that does not leave the short-term tier over capacity removes
\* nothing from either tier.
C3_InsertionStep ==
    LET S == Append(short_term_memory, last_call'.entry)
        cands == { i \in 1..Len(S) : S[i].reliability_score > PromotionBar }
        oldest == { i \in cands :
                      \A j \in cands : S[i].last_accessed <= S[j].last_accessed }
        L(i) == Append(long_term_memory, S[i])
    IN  (now' = now + 1 /\ last_call'.op \in InsertOps) =>
            IF Len(S) > short_term_capacity
            THEN IF cands # {}
                 THEN \E i \in oldest :
                        /\ UntieredSeq(short_term_memory')
                              = UntieredSeq(WithoutIndex(S, i))
                        /\ UntieredSeq(long_term_memory')
                              = UntieredSeq(IF Len(L(i)) > long_term_capacity
                                            THEN Tail(L(i)) ELSE L(i))
                 ELSE /\ short_term_memory' = Tail(S)
                      /\ long_term_memory' = long_term_memory
            ELSE /\ short_term_memory' = S
                 /\ long_term_memory' = long_term_memory

C3_CapacityManagement == [][C3_InsertionStep]_vars

\* an insertion promoted an entry that was not the head of the short-term
\* tier and the long-term tier dropped its head to take it
C3_Witness ==
    /\ last_call.op \in InsertOps
    /\ short_term_capacity = 1 /\ long_term_capacity = 1
    /\ Len(short_term_memory) = 1 /\ Len(long_term_memory) = 1
    /\ short_term_memory[1].reliability_score = PromotionBar
    /\ long_term_memory[1] = [last_call.entry EXCEPT !.memory_type = "long_term"]
    /\ now = MaxCalls

\* C4 as stated: after apply_edits returns, every edit_id of its edits_applied
\* resolves through get_edit_provenance, whatever the configuration.
C4_ProvenanceAlways ==
    last_call.op = "apply_edits" =>
        \A i \in 1..Len(last_call.result.edits_applied) :
            GetEditProvenance(short_term_memory, long_term_memory,
                              last_call.result.edits_applied[i].edit_id) # NoRecord

\* C4 amended: the same when long_term_capacity >= 1.
C4_ProvenanceWithLongTermRoom ==
    (last_call.op = "apply_edits" /\ long_term_capacity >= 1) =>
        \A i \in 1..Len(last_call.result.edits_applied) :
            GetEditProvenance(short_term_memory, long_term_memory,
                              last_call.result.edits_applied[i].edit_id) # NoRecord

\* apply_edits made an edit and its entry went straight to a full long-term tier
C4_Witness ==
    /\ last_call.op = "apply_edits"
    /\ Len(last_call.result.edits_applied) = 1
    /\ short_term_capacity = 0
    /\ long_term_capacity = 1
    /\ now >= 2
    /\ GetEditProvenance(short_term_memory, long_term_memory,
                         last_call.result.edits_applied[1].edit_id) # NoRecord
    /\ TheRecord(GetEditProvenance(short_term_memory, long_term_memory,
                      last_call.result.edits_applied[1].edit_id)).memory_type
          = "long_term"

\* the number an edit id spells after its "edit_" prefix
RECURSIVE DigitsValue(_)
DigitsValue(d) ==
    IF d = <<>> THEN 0
    ELSE 10 * DigitsValue(SubSeq(d, 1, Len(d) - 1)) + d[Len(d)]

IdValue(edit_id) == DigitsValue(Tail(edit_id))

\* where the Edits of the stream are: <<tier, entry index, edit index>>
EditPlaces ==
    { p \in {"short_term", "long_term"} \X (1..(2 * MaxCap + 2)) \X (1..(MaxPending + 1)) :
        LET mem == IF p[1] = "short_term" THEN short_term_memory
                   ELSE long_term_memory
        IN  p[2] <= Len(mem) /\ p[3] <= Len(mem[p[2]].edit_history) }

EditAt(p) ==
    (IF p[1] = "short_term" THEN short_term_memory
     ELSE long_term_memory)[p[2]].edit_history[p[3]]

\* C5: ids are issued in strictly increasing counter order, so no id held in
\* either tier exceeds the counter and no two Edits of the tiers share an id.
C5_UniqueEditIds ==
    /\ \A p \in EditPlaces : IdValue(EditAt(p).edit_id) \in 1..edit_counter
    /\ \A p, q \in EditPlaces : p # q => EditAt(p).edit_id # EditAt(q).edit_id
    /\ \A i \in 1..Len(pending) :
          /\ IdValue(pending[i].edit_id) \in 1..edit_counter
          /\ \A p \in EditPlaces : EditAt(p).edit_id # pending[i].edit_id

\* the tiers hold an edit made by apply_edits and one made by a direct
\* create_edit call
C5_Witness ==
    /\ edit_counter >= 2
    /\ \E p, q \in EditPlaces :
          /\ EditAt(p).edit_type = "substitution"
          /\ EditAt(q).edit_type = "reordering"

\* ========================================================= traversal claims
\* path starts at s, ends at t and follows edges of the graph
IsPathBetween(path, s, t) ==
    /\ Len(path) >= 1
    /\ path[1] = s
    /\ path[Len(path)] = t
    /\ \A i \in 1..(Len(path) - 1) : HasEdge(graph, path[i], path[i + 1])

TargetReachable == call.target \in Grow(graph, {call.start})

\* C6: when target is reachable from start, traverse returns, in either mode,
\* a path from start to target along edges of the graph.
C6_ReachableGivesPath ==
    (pc = "done" /\ TargetReachable) =>
        IsPathBetween(result.path, call.start, call.target)

\* C7: when target is unreachable from start, traverse returns the path
\* [start] with cost 0.0, in either mode, and the call completes.
C7_UnreachableGivesStart ==
    (pc = "done" /\ ~TargetReachable) =>
        /\ result.path = <<call.start>>
        /\ result.cost = RatZero

\* a classical call for an unreachable target has returned
C7_Witness ==
    /\ pc = "done"
    /\ ~TargetReachable
    /\ ~use_quantum
    /\ outcome = "classical"
    /\ result.path = <<call.start>>

C9_TimeoutCanFire == (pc = "solving") => ENABLED EngineNext

\* C10: for start = target the optimized traversal returns [start] with
\* coherence 1.0 and never enters the solver.
C10_SelfLoopShortCircuits ==
    (use_quantum /\ pc # "idle" /\ call.start = call.target) =>
        /\ ~solver_invoked
        /\ pc = "done" =>
              /\ result.path = <<call.start>>
              /\ result.coherence = RatOne

\* C11: compute_semantic_coherence of the empty path is 0.0, on every graph.
C11_EmptyPathIsZero ==
    (coherence_call.called /\ coherence_call.path = <<>>) =>
        coherence_call.value = RatZero

\* ============================================================ router claims
\* C12: for every layer, every query_complexity in [0, 1] and both values of
\* language_match, adjust_threshold returns a value within
\* [min_threshold, max_threshold].
C12_ThresholdInRange ==
    threshold_call.called =>
        /\ min_threshold <= threshold_call.value
        /\ threshold_call.value <= max_threshold

\* a call at query_complexity 0 whose unclamped value lies below min_threshold
C12_Witness ==
    /\ threshold_call.called
    /\ threshold_call.query_complexity = 0
    /\ threshold_call.layer = "language"
    /\ threshold_call.language_match
    /\ base_threshold - LanguageCut - LanguageMatchBonus < min_threshold
    /\ threshold_call.value = min_threshold

\* the entries of a layer's store that pass the layer's filter and reach the
\* threshold adjust_threshold gives for query_complexity, as store indices
Qualifying(layer, query_complexity) ==
    { i \in 1..Len(context_store[layer]) :
        /\ layer = "language" =>
              context_store[layer][i].language = routed.query_language
        /\ (layer = "domain" /\ Truthy(routed.query_domain)) =>
              context_store[layer][i].domain = routed.query_domain
        /\ SimAtLeast(ComputeSimilarity(routed.query_embedding,
                                        context_store[layer][i].embedding),
                      AdjustThreshold(base_threshold, min_threshold, max_threshold,
                                      layer, query_complexity, layer = "language")) }

\* C13: for a fixed layer and language_match, adjust_threshold is
\* non-increasing in query_complexity, so a higher query_complexity never
\* removes an entry from those of a layer that pass the threshold.
C13_ComplexityBroadens ==
    routed.called =>
        \A layer \in Layers, higher \in QueryComplexities :
            higher >= routed.query_complexity =>
                /\ AdjustThreshold(base_threshold, min_threshold, max_threshold,
                                   layer, higher, layer = "language")
                      <= AdjustThreshold(base_threshold, min_threshold,
                                         max_threshold, layer,
                                         routed.query_complexity,
                                         layer = "language")
                /\ Qualifying(layer, routed.query_complexity)
                      \subseteq Qualifying(layer, higher)

\* the global entries that reach the global threshold, whatever their
\* language and domain
GlobalAboveThreshold ==
    { i \in 1..Len(context_store["global"]) :
        SimAtLeast(ComputeSimilarity(routed.query_embedding,
                                     context_store["global"][i].embedding),
                   AdjustThreshold(base_threshold, min_threshold, max_threshold,
                                   "global", routed.query_complexity, FALSE)) }

\* C14: every entry of the LANGUAGE-layer result has the query's language;
\* when a query_domain is supplied every entry of the DOMAIN-layer result has
\* that domain; no GLOBAL entry is excluded because of its language or domain.
C14_LayerFilters ==
    routed.called =>
        /\ \A i \in 1..Len(routed.results["language"]) :
              routed.results["language"][i].entry.language = routed.query_language
        /\ Truthy(routed.query_domain) =>
              \A i \in 1..Len(routed.results["domain"]) :
                  routed.results["domain"][i].entry.domain = routed.query_domain
        /\ Len(routed.results["global"])
              = (IF routed.top_k < Cardinality(GlobalAboveThreshold)
                 THEN routed.top_k ELSE Cardinality(GlobalAboveThreshold))

\* a LANGUAGE store holding only entries of another language, one of them
\* equal to the query in direction, gave an empty LANGUAGE result, while the
\* GLOBAL result kept an entry of another language
C14_Witness ==
    /\ routed.called
    /\ routed.top_k >= 1
    /\ context_store["language"] # <<>>
    /\ \A i \in 1..Len(context_store["language"]) :
          /\ context_store["language"][i].language # routed.query_language
          /\ SimEqual(ComputeSimilarity(routed.query_embedding,
                                        context_store["language"][i].embedding),
                      [num |-> 1, den2 |-> 1])
    /\ routed.results["language"] = <<>>
    /\ routed.results["global"] # <<>>
    /\ routed.results["global"][1].entry.language # routed.query_language

\* i comes before j in the order of the result: higher similarity first, equal
\* similarities in insertion order
Before(layer, i, j) ==
    LET si == ComputeSimilarity(routed.query_embedding,
                                context_store[layer][i].embedding)
        sj == ComputeSimilarity(routed.query_embedding,
                                context_store[layer][j].embedding)
    IN  SimLess(sj, si) \/ (SimEqual(si, sj) /\ i < j)

\* the store index of the entry that belongs at place n of the layer's result
Ranked(layer, n) ==
    CHOOSE i \in Qualifying(layer, routed.query_complexity) :
        Cardinality({ j \in Qualifying(layer, routed.query_complexity) :
                        Before(layer, j, i) }) = n - 1

\* C15: for top_k >= 0 each layer's result is the first top_k of the layer's
\* qualifying entries, ordered by descending similarity, equal similarities in
\* insertion order; the empty store gives empty lists.
C15_TopKOfSorted ==
    (routed.called /\ routed.top_k >= 0) =>
        \A layer \in Layers :
            LET q == Qualifying(layer, routed.query_complexity)
                res == routed.results[layer]
            IN  /\ Len(res) = (IF routed.top_k < Cardinality(q) THEN routed.top_k
                               ELSE Cardinality(q))
                /\ \A n \in 1..Len(res) :
                      /\ res[n].entry = context_store[layer][Ranked(layer, n)]
                      /\ SimEqual(res[n].similarity,
                                  ComputeSimilarity(
                                      routed.query_embedding,
                                      context_store[layer][Ranked(layer, n)].embedding))

\* three DOMAIN entries qualified, the first two added tie below the third,
\* and top_k = 2 cut the result: the third entry, then the first
C15_Witness ==
    /\ routed.called
    /\ routed.top_k = 2
    /\ Len(context_store["domain"]) = 3
    /\ Cardinality(Qualifying("domain", routed.query_complexity)) = 3
    /\ SimEqual(ComputeSimilarity(routed.query_embedding,
                                  context_store["domain"][1].embedding),
                ComputeSimilarity(routed.query_embedding,
                                  context_store["domain"][2].embedding))
    /\ context_store["domain"][1] # context_store["domain"][2]
    /\ Len(routed.results["domain"]) = 2
    /\ routed.results["domain"][1].entry = context_store["domain"][3]
    /\ routed.results["domain"][2].entry = context_store["domain"][1]

\* the routed lists in priority order, one after the other
MergedInput ==
    merged.routed_context["language"] \o merged.routed_context["domain"]
        \o merged.routed_context["global"]

RECURSIVE TokensOf(_, _)
TokensOf(items, n) ==
    IF n = 0 THEN 0
    ELSE TokensOf(items, n - 1) + Len(items[n].entry.content) \div CharsPerToken

\* the number of parts of the merged output tagged with the layer
PartsOf(layer) ==
    Cardinality({ i \in 1..Len(merged.parts) : merged.parts[i].layer = layer })

\* the places of MergedInput whose entries are in the merged output
IncludedPlaces ==
    LET nl == Len(merged.routed_context["language"])
        nd == Len(merged.routed_context["domain"])
    IN  (1..PartsOf("language"))
            \cup { nl + i : i \in 1..PartsOf("domain") }
            \cup { nl + nd + i : i \in 1..PartsOf("global") }

\* the included entries before place n, in tokens
IncludedTokensBefore(n) ==
    LET RECURSIVE Sum(_)
        Sum(k) == IF k = 0 THEN 0
                  ELSE Sum(k - 1)
                         + (IF k \in IncludedPlaces
                            THEN Len(MergedInput[k].entry.content) \div CharsPerToken
                            ELSE 0)
    IN  Sum(n - 1)

\* the places whose entry would push the running total above max_tokens
StopPlaces ==
    { n \in 1..Len(MergedInput) :
        IncludedTokensBefore(n)
            + Len(MergedInput[n].entry.content) \div CharsPerToken
            > merged.max_tokens }

\* C16: once an entry is met whose tokens would push the running total above
\* max_tokens, no later entry, of the same layer or of a lower-priority layer,
\* is in the merged output.
C16_NothingAfterStop ==
    merged.called =>
        \A n \in StopPlaces, k \in IncludedPlaces : k < n

\* the tagged part merge_context makes of a routed pair
Tagged(layer, item) ==
    [ layer |-> layer, score |-> FormatScore(item.similarity),
      content |-> item.entry.content ]

TaggedPrefix(layer, n) ==
    [ i \in 1..n |-> Tagged(layer, merged.routed_context[layer][i]) ]

\* C17: for max_tokens >= 0 the included entries cost at most max_tokens in
\* all, and the output is a prefix of the LANGUAGE list, then a prefix of the
\* DOMAIN list, then a prefix of the GLOBAL list, each in routed order.
C17_BoundedPrefixes ==
    (merged.called /\ merged.max_tokens >= 0) =>
        /\ \E nl \in 0..Len(merged.routed_context["language"]),
              nd \in 0..Len(merged.routed_context["domain"]),
              ng \in 0..Len(merged.routed_context["global"]) :
              /\ merged.parts = TaggedPrefix("language", nl)
                                    \o TaggedPrefix("domain", nd)
                                    \o TaggedPrefix("global", ng)
              /\ TokensOf(merged.routed_context["language"], nl)
                    + TokensOf(merged.routed_context["domain"], nd)
                    + TokensOf(merged.routed_context["global"], ng)
                    <= merged.max_tokens

\* the budget cut the LANGUAGE list short before a smaller entry, and the
\* output holds parts of the LANGUAGE and DOMAIN layers, the budget used up
C17_Witness ==
    /\ merged.called
    /\ merged.max_tokens = 4
    /\ Len(merged.routed_context["language"]) = 2
    /\ Len(merged.routed_context["language"][1].entry.content) = 8
    /\ Len(merged.routed_context["language"][2].entry.content) = 12
    /\ PartsOf("language") = 1
    /\ PartsOf("domain") = 1
    /\ merged.parts[1].score = 894
    /\ merged.routed_context["global"] # <<>>
    /\ PartsOf("global") = 0

\* ===================================================== edit function claims
\* the same piece up to the case of its letters
SameIgnoringCase(a, b) ==
    \/ a = b
    \/ {a, b} \in { {"Research", "research"}, {"According", "according"},
                    {"Quantum", "quantum"}, {"QUANTUM", "quantum"},
                    {"Quantum", "QUANTUM"}, {"Limit", "limit"} }

\* phrase occurs in text as a substring, case-insensitively
OccursIgnoringCase(text, phrase) ==
    \E i \in 1..(Len(text) - Len(phrase) + 1) :
        \A j \in 1..Len(phrase) : SameIgnoringCase(text[i + j - 1], phrase[j])

\* C18: detect_hallucination returns unsupported_claim iff the text contains
\* 'research shows' and not 'according to', case-insensitively; otherwise
\* entity_mismatch iff the entity list is non-empty and none of its entities
\* occurs in the text, case-insensitively; otherwise none.
C18_DetectionRules ==
    last_call.op = "detect_hallucination" =>
        LET text == last_call.result.text
            entities == last_call.result.context.entities
            unsupported == /\ OccursIgnoringCase(text, <<"research", "shows">>)
                           /\ ~OccursIgnoringCase(text, <<"according", "to">>)
            mismatch == /\ entities # <<>>
                        /\ \A i \in 1..Len(entities) :
                              ~OccursIgnoringCase(text, entities[i])
        IN  last_call.result.hallucination =
                (IF unsupported THEN "unsupported_claim"
                 ELSE IF mismatch THEN "entity_mismatch"
                 ELSE None)

\* a text with 'Research shows' in capitals and none of the context's
\* entities was flagged unsupported_claim, not entity_mismatch
C18_Witness ==
    /\ last_call.op = "detect_hallucination"
    /\ last_call.result.text = <<"QUANTUM", "Research", "shows">>
    /\ last_call.result.context.entities = << <<"Limit">>, <<"shows", "According">> >>
    /\ last_call.result.hallucination = "unsupported_claim"

\* the number of places of text where the one-piece pat stands
Count(text, pat) == Cardinality({ i \in 1..Len(text) : <<text[i]>> = pat })

IsXToY(edit) ==
    /\ edit.edit_type = "substitution"
    /\ edit.original_text = <<"X">>
    /\ edit.corrected_text = <<"Y">>

\* C19 as stated: a substitution of "X" by "Y" made by create_edit, applied to
\* a text with exactly one "X", gives a text with exactly one "Y" and no "X".
C19_ExactlyOneY ==
    (/\ last_call.op = "apply_edit"
     /\ IsXToY(last_call.result.edit)
     /\ Count(last_call.result.text, <<"X">>) = 1) =>
        /\ Count(last_call.result.edited, <<"Y">>) = 1
        /\ Count(last_call.result.edited, <<"X">>) = 0

\* C19 amended: the result has no "X" and one "Y" more than the text had.
C19_OneMoreY ==
    (/\ last_call.op = "apply_edit"
     /\ IsXToY(last_call.result.edit)
     /\ Count(last_call.result.text, <<"X">>) = 1) =>
        /\ Count(last_call.result.edited, <<"Y">>)
              = Count(last_call.result.text, <<"Y">>) + 1
        /\ Count(last_call.result.edited, <<"X">>) = 0
        /\ Len(last_call.result.edited) = Len(last_call.result.text)

\* the substitution was applied to a text whose only "X" follows a "Y"
C19_Witness ==
    /\ last_call.op = "apply_edit"
    /\ IsXToY(last_call.result.edit)
    /\ last_call.result.edit.edit_id = EditId(1)
    /\ last_call.result.text = <<"Z", "Y", "X">>
    /\ last_call.result.edited = <<"Z", "Y", "Y">>

\* C20: apply_edit returns the text unchanged for a substitution or deletion
\* whose original_text does not occur in the text and for every reordering
\* edit, and it changes neither the memory tiers nor the counter nor the
\* statistics.
C20_ApplyStep ==
    (last_call'.op = "apply_edit" /\ last_call' # last_call) =>
        LET text == last_call'.result.text
            edit == last_call'.result.edit
        IN  /\ (\/ edit.edit_type = "reordering"
                \/ /\ edit.edit_type \in {"substitution", "deletion"}
                   /\ \A i \in 1..Len(text) :
                         SubSeq(text, i, i + Len(edit.original_text) - 1)
                             # edit.original_text)
                  => last_call'.result.edited = text
            /\ UNCHANGED << short_term_memory, long_term_memory, edit_counter,
                            hallucination_stats >>

C20_NoOpEdits == [][C20_ApplyStep]_vars

\* a reordering edit was applied to a text that holds its original_text, after
\* create_edit had moved the counter and the statistics
C20_Witness ==
    /\ last_call.op = "apply_edit"
    /\ last_call.result.edit.edit_type = "reordering"
    /\ Count(last_call.result.text, <<"X">>) = 2
    /\ last_call.result.edited = last_call.result.text
    /\ edit_counter = 1
    /\ hallucination_stats["factual_error"] = 1

\* ===================================================== citation walk claims
\* the nodes within k citation-tagged edges of the nodes of S
RECURSIVE CitedWithin(_, _, _)
CitedWithin(g, S, k) ==
    IF k = 0 THEN S
    ELSE CitedWithin(g, S \cup { v \in Nodes : \E u \in S :
                                   HasEdge(g, u, v) /\ g[{u, v}].type = "citation" },
                     k - 1)

\* the citation-hop distance of v from s, for v within NumNodes hops
CitationHops(g, s, v) ==
    CHOOSE k \in 0..NumNodes :
        v \in CitedWithin(g, {s}, k) /\ \A j \in 0..(k - 1) : v \notin CitedWithin(g, {s}, j)

\* a duplicate-free list that starts at s, holds exactly the nodes within
\* max_depth citation hops of s, in non-decreasing hop distance
IsBreadthFirstWalk(g, walk, s, max_depth) ==
    /\ Len(walk) >= 1
    /\ walk[1] = s
    /\ \A i, j \in 1..Len(walk) : i # j => walk[i] # walk[j]
    /\ Range(walk) = CitedWithin(g, {s}, max_depth)
    /\ \A i, j \in 1..Len(walk) :
          i < j => CitationHops(g, s, walk[i]) <= CitationHops(g, s, walk[j])

\* C23: citation_walk(start, max_depth) returns a duplicate-free list whose
\* first element is start and whose elements are exactly the nodes within
\* max_depth citation-tagged edges of start, in breadth-first order.
C23_BreadthFirstWalk ==
    citation_call.called =>
        IsBreadthFirstWalk(graph, citation_call.value, citation_call.start,
                           citation_call.max_depth)

\* a walk of depth 2 that returned four nodes or more, one of them reached over
\* two routes of different length, and left a farther citation out
C23_Witness ==
    /\ citation_call.called
    /\ citation_call.max_depth = 2
    /\ citation_call.start = 4
    /\ Len(citation_call.value) >= 6
    /\ \A e \in { {4, 5}, {4, 6}, {5, 6}, {6, 7}, {3, 4}, {2, 3}, {1, 2} } :
          graph[e].type = "citation"
    /\ graph[{1, 3}].type = "semantic"
    /\ 1 \notin Range(citation_call.value)

\* C24: with use_citations the citations of traverse's result are the citation
\* walk of depth 2 from the last node of the returned path, so they are
\* non-empty and start with that node; without it they are empty; and the path
\* returned is the one the traversal method produced.
C24_CitationsFromTerminal ==
    pc = "done" =>
        LET path == result.path
        IN  /\ path # <<>>
            /\ result.path_length = Len(path)
            /\ IF call.use_citations
               THEN /\ IsBreadthFirstWalk(graph, result.citations,
                                          path[Len(path)], CitationDepth)
                    /\ result.citations # <<>>
                    /\ result.citations[1] = path[Len(path)]
               ELSE result.citations = <<>>
            /\ outcome \in {"no_path", "no_candidates"} => path = <<call.start>>
            /\ outcome \in {"selected", "first_candidate"} =>
                  path \in Range(Candidates(graph, call.start, call.target,
                                            singleton_paths))
            /\ outcome \in {"classical", "fallback"} =>
                  \/ path \in ShortestPaths(graph, call.start, call.target)
                  \/ path = <<call.start>> /\ ~HasPath(graph, call.start, call.target)

\* a traversal over three nodes or more whose citations start at the target
\* and go on from there
C24_Witness ==
    /\ pc = "done"
    /\ call.use_citations
    /\ Len(result.path) >= 3
    /\ result.path[Len(result.path)] = call.target
    /\ Len(result.citations) >= 3
    /\ result.citations[1] = call.target
    /\ call.start \notin Range(result.citations)

\* C28: the method field names the algorithm that produced the path: the
\* classical label whenever the path came from classical_traversal, the
\* fallback after a solver failure included, and the quantum label only when
\* the optimization backend selected the path.
C28_MethodNamesAlgorithm ==
    pc = "done" =>
        /\ outcome \in {"classical", "fallback"} =>
              result.method = "classical_dijkstra"
        /\ result.method = "quantum_qaoa" => outcome = "selected"

\* ======================================================= layer stats claims
\* what one add_context(entry) step does to the store and to its statistics
C25_Step ==
    \A entry \in RouteEntries :
        AddContext(entry) =>
            /\ GetLayerStats(context_store')[entry.layer]
                  = GetLayerStats(context_store)[entry.layer] + 1
            /\ context_store'[entry.layer][Len(context_store'[entry.layer])] = entry
            /\ SubSeq(context_store'[entry.layer], 1, Len(context_store[entry.layer]))
                  = context_store[entry.layer]
            /\ \A layer \in Layers \ {entry.layer} :
                  /\ context_store'[layer] = context_store[layer]
                  /\ GetLayerStats(context_store')[layer]
                        = GetLayerStats(context_store)[layer]

\* C25: get_layer_stats() counts, for each layer, the add_context calls whose
\* entry had that layer: it reads zero on a new router and each add_context
\* raises its entry's layer by one, appending to that layer only and leaving
\* every stored entry as it was.
C25_StatsCountCalls ==
    /\ \A layer \in Layers : GetLayerStats(context_store)[layer] = 0
    /\ [][C25_Step]_vars

\* three add_context calls, two of them to one layer
C25_Witness ==
    /\ GetLayerStats(context_store)["global"] = 2
    /\ GetLayerStats(context_store)["language"] = 1
    /\ GetLayerStats(context_store)["domain"] = 0
    /\ context_store["global"][1] # context_store["global"][2]

\* ======================================================= apply_edits claims
\* what one apply_edits(text, context) step reports and stores
C26_Step ==
    \A text \in ApplyTexts, context \in ApplyContexts :
        ApplyEdits(text, context) =>
            LET detected == DetectHallucination(text, context)
                res == last_call'.result
                entry == last_call'.entry
            IN  /\ res.original_text = text
                /\ res.hallucination_detected = detected
                /\ IF detected # None
                   THEN /\ Len(res.edits_applied) = 1
                        /\ res.edits_applied[1].type = "substitution"
                        /\ res.edits_applied[1].hallucination = detected
                        /\ res.edits_applied[1].provenance =
                              (IF context.source = None THEN "unknown"
                               ELSE context.source)
                        /\ res.edited_text = <<"[CORRECTED] ">> \o text
                        /\ res.reliability_score = 9
                        /\ edit_counter' = edit_counter + 1
                   ELSE /\ res.edits_applied = <<>>
                        /\ res.edited_text = text
                        /\ res.reliability_score = 10
                        /\ edit_counter' = edit_counter
                /\ entry.content = res.edited_text
                /\ entry.reliability_score = res.reliability_score
                /\ Len(entry.edit_history) = Len(res.edits_applied)
                /\ \A i \in 1..Len(entry.edit_history) :
                      entry.edit_history[i].edit_id = res.edits_applied[i].edit_id
                /\ Len(short_term_memory') + Len(long_term_memory')
                      <= Len(short_term_memory) + Len(long_term_memory) + 1
                /\ short_term_capacity >= 1 =>
                      /\ short_term_memory' # <<>>
                      /\ short_term_memory'[Len(short_term_memory')] = entry
                /\ (short_term_capacity = 0 /\ long_term_capacity >= 1) =>
                      /\ long_term_memory' # <<>>
                      /\ long_term_memory'[Len(long_term_memory')]
                            = [entry EXCEPT !.memory_type = "long_term"]

\* C26: an apply_edits call applies at most one edit. On a detection it reports
\* one substitution edit tagged with the detected type and the context's
\* source, the edited text is the input behind '[CORRECTED] ' and the
\* reliability is 0.9; otherwise no edit, the text unchanged, no hallucination
\* and reliability 1.0. One new entry with the edited text and the applied
\* edits goes into the short-term tier before capacity management.
C26_OneEditPerCall == [][C26_Step]_vars

\* the empty text was flagged entity_mismatch under a context with no source
C26_Witness ==
    /\ last_call.op = "apply_edits"
    /\ last_call.result.original_text = <<>>
    /\ last_call.result.hallucination_detected = "entity_mismatch"
    /\ last_call.result.edited_text = <<"[CORRECTED] ">>
    /\ last_call.result.edits_applied[1].provenance = "unknown"
    /\ last_call.result.reliability_score = 9
    /\ now = 2

Min(a, b) == IF a < b THEN a ELSE b

\* C29: under serialized apply_edits calls every entry has reliability 0.9 or
\* 1.0, and after n calls the short-term tier holds min(n, Cs) entries and the
\* long-term tier min(max(n - Cs, 0), Cl), in creation order.
C29_TierSizes ==
    /\ \A i \in 1..Len(short_term_memory) :
          short_term_memory[i].reliability_score \in {9, 10}
    /\ \A i \in 1..Len(long_term_memory) :
          long_term_memory[i].reliability_score \in {9, 10}
    /\ Len(short_term_memory) = Min(now, short_term_capacity)
    /\ Len(long_term_memory) =
          Min(IF now > short_term_capacity THEN now - short_term_capacity ELSE 0,
              long_term_capacity)
    /\ \A i, j \in 1..Len(long_term_memory) :
          i < j => long_term_memory[i].last_accessed
                       < long_term_memory[j].last_accessed
    /\ \A i \in 1..Len(long_term_memory), j \in 1..Len(short_term_memory) :
          long_term_memory[i].last_accessed < short_term_memory[j].last_accessed

\* three calls on a stream of capacities 1 and 1: one entry in each tier, the
\* long-term one corrected, the first entry gone
C29_Witness ==
    /\ now = 3
    /\ short_term_capacity = 1
    /\ long_term_capacity = 1
    /\ Len(short_term_memory) = 1
    /\ Len(long_term_memory) = 1
    /\ long_term_memory[1].reliability_score = 9
    /\ long_term_memory[1].last_accessed = 2

\* the tier whose list holds the first entry that carries edit_id
HoldingTier(edit_id) ==
    IF \E i \in 1..Len(short_term_memory) :
           \E k \in 1..Len(short_term_memory[i].edit_history) :
               short_term_memory[i].edit_history[k].edit_id = edit_id
    THEN "short_term"
    ELSE "long_term"

\* C27: every entry's memory_type names the tier list that holds it, so the
\* memory_type get_edit_provenance returns is the tier holding the edit, and
\* it returns None exactly for an id no held entry carries.
C27_LabelIsHoldingTier ==
    /\ \A i \in 1..Len(short_term_memory) :
          short_term_memory[i].memory_type = "short_term"
    /\ \A i \in 1..Len(long_term_memory) :
          long_term_memory[i].memory_type = "long_term"
    /\ \A n \in 1..(edit_counter + 1) :
          LET found == GetEditProvenance(short_term_memory, long_term_memory,
                                         EditId(n))
          IN  IF ProvenanceHits(short_term_memory, long_term_memory, EditId(n)) = {}
              THEN found = NoRecord
              ELSE /\ found # NoRecord
                   /\ TheRecord(found).memory_type = HoldingTier(EditId(n))

\* ========================================================== pipeline claims
\* what one apply_edits(traversal_path) step reports
C30_Step ==
    \A traversal_path \in TraversalInfos :
        (/\ last_call'.op = "apply_edits"
         /\ last_call'.result.original_text = JoinPath(traversal_path.path)
         /\ PipelineApplyEdits(traversal_path)) =>
            LET res == last_call'.result
                text == res.original_text
                unsupported ==
                    /\ OccursIgnoringCase(text, <<"research", "shows">>)
                    /\ ~OccursIgnoringCase(text, <<"according", "to">>)
            IN  /\ res.hallucination_detected # "entity_mismatch"
                /\ traversal_path.path = <<>> =>
                      /\ res.hallucination_detected = None
                      /\ res.edits_applied = <<>>
                /\ res.hallucination_detected # None <=> unsupported
                /\ res.edited_text =
                      (IF unsupported THEN <<"[CORRECTED] ">> \o text ELSE text)
                /\ Len(res.edits_applied) = (IF unsupported THEN 1 ELSE 0)

\* C30: in apply_edits(traversal_path) entity_mismatch is never reported,
\* nothing is flagged for an empty path, and a hallucination is flagged and the
\* text marked corrected only when the joined text holds 'research shows'
\* without 'according to'.
C30_NoEntityMismatch == [][C30_Step]_vars

\* a path of three nodes whose joined text was flagged unsupported_claim
C30_Witness ==
    /\ last_call.op = "apply_edits"
    /\ last_call.result.original_text
          = <<"Quantum", " -> ", "Research", "shows", " -> ", "shows">>
    /\ last_call.result.hallucination_detected = "unsupported_claim"
    /\ last_call.result.edits_applied[1].provenance = "quantum_traversal"

\* ======================================================= concurrency claims
\* no apply_edits call is in progress
Quiescent == \A th \in Threads : workers[th].pc \in Resting

\* the edits the two tiers hold and the calls returned
KnownEdits ==
    UNION { Range(short_term_memory[i].edit_history) : i \in 1..Len(short_term_memory) }
      \cup UNION { Range(long_term_memory[i].edit_history) : i \in 1..Len(long_term_memory) }
      \cup UNION { Range(workers[th].edits_applied) : th \in Threads }

DuplicateIds ==
    \E a, b \in KnownEdits : a.timestamp # b.timestamp /\ a.edit_id = b.edit_id

\* an entry object stands twice in the tiers
HeldTwice ==
    LET all == short_term_memory \o long_term_memory
    IN  \E i, j \in 1..Len(all) :
            i # j /\ all[i].last_accessed = all[j].last_accessed

OverCapacity ==
    \/ Len(short_term_memory) > short_term_capacity
    \/ Len(long_term_memory) > long_term_capacity

CallFailed == \E th \in Threads : workers[th].pc = "failed"

\* C21: apply_edits calls that run one after the other keep the guarantees
\* (distinct ids, tiers within capacity, every entry held once, no failure);
\* calls that interleave can break each of them.
C21_SerializedCallsAreSafe ==
    (Quiescent /\ ~overlapped) =>
        /\ ~DuplicateIds
        /\ ~HeldTwice
        /\ ~OverCapacity
        /\ ~CallFailed

\* two interleaved calls are over: both selected the same entry, so one
\* removal failed, the short-term tier is over capacity and the two edits
\* carry one id
C21_Witness ==
    /\ Quiescent
    /\ overlapped
    /\ CallFailed
    /\ Len(short_term_memory) > short_term_capacity
    /\ \E a \in Range(workers["t1"].edits_applied),
          b \in Range(workers["t2"].edits_applied) :
          a.timestamp # b.timestamp /\ a.edit_id = b.edit_id

\* the store with only the first n entries of layer
PrefixStore(layer, n) == [context_store EXCEPT ![layer] = Take(@, n)]

\* the layers whose loop the reader has finished
FinishedLayers(r) ==
    IF r.pc = "done" THEN Layers
    ELSE IF r.pc = "scan" THEN { RouteOrder[i] : i \in 1..(r.layer - 1) }
    ELSE {}

\* the result of layer is route_context's result over a prefix of the layer's
\* store that holds every entry present when the call began
RoutedOverPrefix(r, layer) ==
    \E n \in r.began[layer]..Len(context_store[layer]) :
        r.results[layer] =
            RouteResult(PrefixStore(layer, n), base_threshold, min_threshold,
                        max_threshold, r.args.query_embedding,
                        r.args.query_language, r.args.query_domain,
                        r.args.query_complexity, r.args.top_k)[layer]

\* C22: a route_context call that runs beside add_context calls and other
\* route_context calls returns, for each layer, the result of routing over a
\* prefix of that layer's store that holds at least the entries present when
\* the call began; and no step of route_context changes the store.
C22_RoutesOverPrefix ==
    /\ [](\A th \in Threads : \A layer \in FinishedLayers(readers[th]) :
              RoutedOverPrefix(readers[th], layer))
    /\ [][ReaderNext => UNCHANGED context_store]_vars

\* a call has returned whose language result holds an entry added after the
\* call began, ranked above an entry present from the start, while the global
\* entry added during the call was missed
C22_Witness ==
    /\ readers["t1"].pc = "done"
    /\ readers["t2"].pc = "scan"
    /\ readers["t1"].began["language"] = 1
    /\ readers["t1"].began["global"] = 0
    /\ Len(readers["t1"].results["language"]) = 2
    /\ readers["t1"].results["language"][1].entry.content = "lc"
    /\ readers["t1"].results["global"] = <<>>
    /\ Len(context_store["global"]) = 1

====
